---- MODULE Spec2Model ----
(***************************************************************************)
(* muffin: the preset layout engine.                                       *)
(*                                                                         *)
(*   parser  (src/parser/src/lib.rs) : KDL document -> map name -> Preset  *)
(*   tmux    (src/tmux/src/lib.rs)   : Preset -> sequence of tmux calls    *)
(*                                                                         *)
(* A KDL document is modelled after parsing by the kdl crate: a sequence   *)
(* of nodes, each with a name, its properties and an optional child block. *)
(* Option<T> is a sequence of length 0 (None) or 1 (Some).                 *)
(*                                                                         *)
(* The parser names a node's percentage size, the tmux library names it    *)
(* percentage; the model keeps one field, size.  The tmux library          *)
(* holds a pane's cwd as Option<String>; the parser always fills it.       *)
(***************************************************************************)
EXTENDS Integers, Sequences, FiniteSets, TLC

(***************************************************************************)
(* Bounds of the model                                                     *)
(***************************************************************************)
MaxChildren == 3
MaxWindows == 2
\* the notifications that may be under way or on display at a time
MaxNotifications == 1

(***************************************************************************)
(* Option and Result.  A message built by format! is the tuple of its      *)
(* literal text and its arguments.                                         *)
(***************************************************************************)
None == << >>
Some(v) == << v >>
IsSome(o) == Len(o) = 1
UnwrapOr(o, d) == IF Len(o) = 1 THEN o[1] ELSE d

Ok(v) == [tag |-> "Ok", val |-> v]
Err(m) == [tag |-> "Err", msg |-> m]
\* an arithmetic overflow caught by a build with overflow checks
Panic == [tag |-> "Panic"]
IsOk(r) == r.tag = "Ok"

(***************************************************************************)
(* Integer widths                                                          *)
(***************************************************************************)
U8 == 256
\* (v as u8) on an integer: truncation to the low 8 bits
AsU8(v) == v % U8

(***************************************************************************)
(* The layout model (src/tmux/src/lib.rs:11-48)                            *)
(***************************************************************************)
Pane(cwd, command, size) ==
    [kind |-> "Pane", cwd |-> cwd, command |-> command, size |-> size]
Split(direction, children, size) ==
    [kind |-> "Split", direction |-> direction, children |-> children, size |-> size]
Window(name, cwd, layout) == [name |-> name, cwd |-> cwd, layout |-> layout]
Preset(name, cwd, windows) ==
    [name |-> name, cwd |-> cwd, windows |-> windows, running |-> FALSE]

\* LayoutNode::percentage
percentage(node) == node.size

\* set_size: the size of a node, whatever its variant
set_size(node, val) == [node EXCEPT !.size = val]

(***************************************************************************)
(* KDL nodes                                                               *)
(***************************************************************************)
NoProps == [name |-> None, cwd |-> None, command |-> None, size |-> None,
            direction |-> None]
KdlNode(name, props, children) ==
    [name |-> name, props |-> props, children |-> children]

(***************************************************************************)
(* parse_node_recursive                                                    *)
(***************************************************************************)
\* the long names are taken the wrong way round
ParseDirection_Swapped(dir_str) ==
    IF dir_str \in {"h", "vertical"} THEN Ok("Horizontal")
    ELSE IF dir_str \in {"v", "horizontal"} THEN Ok("Vertical")
    ELSE Err(<< "Invalid direction: ", dir_str >>)
\* the direction attribute of a split
ParseDirection(dir_str) ==
    IF dir_str \in {"h", "horizontal"} THEN Ok("Horizontal")
    ELSE IF dir_str \in {"v", "vertical"} THEN Ok("Vertical")
    ELSE Err(<< "Invalid direction: ", dir_str >>)

\* the share is rounded up
EqualShare_RoundedUp(total_explicit, missing) ==
    LET remaining == IF total_explicit >= 100 THEN 0 ELSE 100 - total_explicit
    IN  (remaining + AsU8(missing) - 1) \div AsU8(missing)
\* the share of every child without a size: lines 211-216
EqualShare(total_explicit, missing) ==
    LET remaining == IF total_explicit >= 100 THEN 0 ELSE 100 - total_explicit
    IN  remaining \div AsU8(missing)

\* set_size(children[idx], share) for every idx in missing_indices
DistributeShare(children, missing_indices, share) ==
    [i \in 1..Len(children) |->
        IF i \in missing_indices THEN set_size(children[i], share) ELSE children[i]]

\* a split without children is accepted
is_empty_Never(children) == FALSE
\* line 205: children.is_empty()
is_empty(children) == children = << >>

RECURSIVE parse_node_recursive(_, _, _)
RECURSIVE ParseSplitChildren(_, _, _, _, _)

\* the loop of lines 190-202 from child i on; acc is (children, total_explicit,
\* missing_indices); oc tells whether the build checks arithmetic overflow
ParseSplitChildren(nodes, i, parent_cwd, acc, oc) ==
    IF i > Len(nodes) THEN Ok(acc)
    ELSE
        LET child_node == nodes[i]
            r == parse_node_recursive(child_node, parent_cwd, oc)
        IN  IF ~IsOk(r) THEN r
            ELSE IF IsSome(child_node.props.size)
            THEN
                LET p == AsU8(child_node.props.size[1])
                    total == acc.total_explicit + p
                IN  IF total >= U8 /\ oc THEN Panic
                    ELSE ParseSplitChildren(nodes, i + 1, parent_cwd,
                            [acc EXCEPT !.children = Append(@, set_size(r.val, p)),
                                        !.total_explicit = total % U8],
                            oc)
            ELSE ParseSplitChildren(nodes, i + 1, parent_cwd,
                    [acc EXCEPT !.children = Append(@, r.val),
                                !.missing_indices = @ \cup {i}],
                    oc)

parse_node_recursive(node, parent_cwd, oc) ==
    LET explicit_size ==
            IF IsSome(node.props.size) THEN Some(AsU8(node.props.size[1])) ELSE None
    IN  IF node.name = "pane"
        THEN Ok(Pane(Some(UnwrapOr(node.props.cwd, parent_cwd)),
                     node.props.command,
                     UnwrapOr(explicit_size, 0)))
        ELSE IF node.name = "split"
        THEN
            LET direction == ParseDirection(UnwrapOr(node.props.direction, "v"))
                parsed ==
                    ParseSplitChildren(UnwrapOr(node.children, << >>), 1, parent_cwd,
                        [children |-> << >>, total_explicit |-> 0,
                         missing_indices |-> {}],
                        oc)
            IN  IF ~IsOk(direction) THEN direction
                ELSE IF ~IsOk(parsed) THEN parsed
                ELSE IF is_empty(parsed.val.children)
                THEN Err(<< "Split nodes must contain children" >>)
                ELSE
                    LET missing == parsed.val.missing_indices
                        children ==
                            IF missing # {}
                            THEN DistributeShare(parsed.val.children, missing,
                                    EqualShare(parsed.val.total_explicit,
                                               Cardinality(missing)))
                            ELSE parsed.val.children
                    IN  Ok(Split(direction.val, children, UnwrapOr(explicit_size, 0)))
        ELSE Err(<< "Unexpected node: ", node.name >>)

(***************************************************************************)
(* parse_panes, parse_windows, parse_session, parse_config                 *)
(***************************************************************************)
\* the first root is taken and the others are ignored
parse_panes_FirstRoot(window_children, window_cwd, oc) ==
    IF window_children = << >>
    THEN Ok(Pane(Some(window_cwd), None, 100))
    ELSE
        LET root_node == parse_node_recursive(window_children[1], window_cwd, oc)
        IN  IF ~IsOk(root_node) THEN root_node
            ELSE Ok(set_size(root_node.val, 100))
\* the root keeps the size it declares
parse_panes_RootKept(window_children, window_cwd, oc) ==
    IF window_children = << >>
    THEN Ok(Pane(Some(window_cwd), None, 100))
    ELSE IF Len(window_children) # 1
    THEN Err(<< "Expected exactly one root split or pane node" >>)
    ELSE parse_node_recursive(window_children[1], window_cwd, oc)

parse_panes(window_children, window_cwd, oc) ==
    IF window_children = << >>
    THEN Ok(Pane(Some(window_cwd), None, 100))
    ELSE IF Len(window_children) # 1
    THEN Err(<< "Expected exactly one root split or pane node" >>)
    ELSE
        LET root_node == parse_node_recursive(window_children[1], window_cwd, oc)
        IN  IF ~IsOk(root_node) THEN root_node
            ELSE Ok(set_size(root_node.val, 100))

\* usize::to_string for the window positions the model reaches
IdxStr(idx) == CASE idx = 0 -> "0" [] idx = 1 -> "1" [] idx = 2 -> "2"
                 [] idx = 3 -> "3" [] OTHER -> "4"

RECURSIVE ParseWindowsFrom(_, _, _, _, _)
\* a node of the session body that is not a window is passed over
ParseWindowsFrom_Skip(windows, i, parent_cwd, ret, oc) ==
    IF i > Len(windows) THEN Ok(ret)
    ELSE
        LET window == windows[i]
            node_name == window.name
        IN  IF node_name # "window"
            THEN ParseWindowsFrom(windows, i + 1, parent_cwd, ret, oc)
            ELSE
                LET window_cwd == UnwrapOr(window.props.cwd, parent_cwd)
                    window_name == UnwrapOr(window.props.name, IdxStr(i - 1))
                    panes ==
                        IF IsSome(window.children)
                        THEN parse_panes(window.children[1], window_cwd, oc)
                        ELSE Ok(Pane(Some(window_cwd), None, 100))
                IN  IF ~IsOk(panes) THEN panes
                    ELSE ParseWindowsFrom(windows, i + 1, parent_cwd,
                            Append(ret, Window(window_name, window_cwd, panes.val)), oc)
\* the loop of lines 76-110 from window i (1-based) on
ParseWindowsFrom(windows, i, parent_cwd, ret, oc) ==
    IF i > Len(windows) THEN Ok(ret)
    ELSE
        LET window == windows[i]
            node_name == window.name
        IN  IF node_name # "window"
            THEN Err(<< "Unknown session child node: ", node_name >>)
            ELSE
                LET window_cwd == UnwrapOr(window.props.cwd, parent_cwd)
                    window_name == UnwrapOr(window.props.name, IdxStr(i - 1))
                    panes ==
                        IF IsSome(window.children)
                        THEN parse_panes(window.children[1], window_cwd, oc)
                        ELSE Ok(Pane(Some(window_cwd), None, 100))
                IN  IF ~IsOk(panes) THEN panes
                    ELSE ParseWindowsFrom(windows, i + 1, parent_cwd,
                            Append(ret, Window(window_name, window_cwd, panes.val)), oc)

\* an empty body gives a session without windows
parse_windows_NoDefault(windows, parent_cwd, oc) ==
    ParseWindowsFrom(windows, 1, parent_cwd, << >>, oc)
\* lines 62-124
parse_windows(windows, parent_cwd, oc) ==
    IF windows = << >>
    THEN Ok(<< Window("main", parent_cwd, Pane(Some(parent_cwd), None, 100)) >>)
    ELSE ParseWindowsFrom(windows, 1, parent_cwd, << >>, oc)

\* a session without cwd starts at the root
DefaultCwd_Root == "/"
\* line 36: unwrap_or("~")
DefaultCwd == "~"

\* a session without name is taken under the empty name
parse_session_NameOptional(session, oc) ==
    IF session.name # "session" THEN Err(<< "Node is not a session" >>)
    ELSE
        LET session_name == UnwrapOr(session.props.name, "")
            session_cwd == UnwrapOr(session.props.cwd, DefaultCwd)
            windows ==
                IF IsSome(session.children)
                THEN parse_windows(session.children[1], session_cwd, oc)
                ELSE Ok(<< Window("main", session_cwd,
                                  Pane(Some(session_cwd), None, 100)) >>)
        IN  IF ~IsOk(windows) THEN windows
            ELSE Ok(Preset(session_name, session_cwd, windows.val))
\* lines 21-60
parse_session(session, oc) ==
    IF session.name # "session" THEN Err(<< "Node is not a session" >>)
    ELSE IF ~IsSome(session.props.name)
    THEN Err(<< "Missing or invalid session name!" >>)
    ELSE
        LET session_name == session.props.name[1]
            session_cwd == UnwrapOr(session.props.cwd, DefaultCwd)
            windows ==
                IF IsSome(session.children)
                THEN parse_windows(session.children[1], session_cwd, oc)
                ELSE Ok(<< Window("main", session_cwd,
                                  Pane(Some(session_cwd), None, 100)) >>)
        IN  IF ~IsOk(windows) THEN windows
            ELSE Ok(Preset(session_name, session_cwd, windows.val))

\* the value already under the key is kept
MapInsert_KeepFirst(map, key, value) ==
    [k \in DOMAIN map \cup {key} |-> IF k \in DOMAIN map THEN map[k] ELSE value]
\* BTreeMap::insert: the later value replaces the earlier one under a key
MapInsert(map, key, value) ==
    [k \in DOMAIN map \cup {key} |-> IF k = key THEN value ELSE map[k]]

RECURSIVE ParseConfigFrom(_, _, _, _)
\* a session in error is left out and the others are kept
ParseConfigFrom_SkipFaulty(nodes, i, map, oc) ==
    IF i > Len(nodes) THEN Ok(map)
    ELSE
        LET node == parse_session(nodes[i], oc)
        IN  IF ~IsOk(node) THEN ParseConfigFrom(nodes, i + 1, map, oc)
            ELSE ParseConfigFrom(nodes, i + 1, MapInsert(map, node.val.name, node.val), oc)
\* the loop of lines 11-16 from node i on
ParseConfigFrom(nodes, i, map, oc) ==
    IF i > Len(nodes) THEN Ok(map)
    ELSE
        LET node == parse_session(nodes[i], oc)
        IN  IF ~IsOk(node) THEN node
            ELSE ParseConfigFrom(nodes, i + 1, MapInsert(map, node.val.name, node.val), oc)

parse_config(doc, oc) == ParseConfigFrom(doc, 1, << >>, oc)

(***************************************************************************)
(* f32 arithmetic of the split percentage (src/tmux/src/lib.rs:159).       *)
(* A positive f32 is a pair (m, k) standing for m / 2^k with a 24-bit      *)
(* significand m; every operation rounds to nearest, ties to even.  The    *)
(* operands stay far from the exponent limits.                             *)
(***************************************************************************)
F32Bits == 24

RECURSIVE Pow2(_)
Pow2(n) == IF n = 0 THEN 1 ELSE 2 * Pow2(n - 1)

\* q + 1 when the discarded part lo out of unit exceeds one half, or equals it
\* with q odd
RoundNearestEven(q, lo, unit) ==
    IF 2 * lo > unit \/ (2 * lo = unit /\ q % 2 = 1) THEN q + 1 ELSE q

RECURSIVE F32DivFrom(_, _, _, _)
\* long division: q is the quotient so far, scaled by 2^k, rem the remainder
F32DivFrom(q, rem, b, k) ==
    IF q >= Pow2(F32Bits - 1)
    THEN [m |-> RoundNearestEven(q, rem, b), k |-> k]
    ELSE F32DivFrom(2 * q + ((2 * rem) \div b), (2 * rem) % b, b, k + 1)

\* a / b as f32, for integers a > 0 and b > 0
F32Div(a, b) == F32DivFrom(a \div b, a % b, b, 0)

\* x * 100.0 as f32
F32Mul100(x) ==
    LET p == x.m * 100
        s == IF p \div Pow2(6) < Pow2(F32Bits) THEN 6 ELSE 7
    IN  [m |-> RoundNearestEven(p \div Pow2(s), p % Pow2(s), Pow2(s)), k |-> x.k - s]

\* the fraction is cut off
F32Round_Truncated(x) == x.m \div Pow2(x.k)
\* f32::round on a positive value: to the nearest integer, halves away from zero
F32Round(x) == (x.m + Pow2(x.k - 1)) \div Pow2(x.k)

\* (f as u8) on a float: saturating, NaN to 0
U8Max == 255
SatU8(v) == IF v < 0 THEN 0 ELSE IF v > U8Max THEN U8Max ELSE v

\* (((remaining_pct - child_pct) / remaining_pct) * 100.0).round() as u8
\* remaining_pct = 0 gives NaN or -inf, a quotient below zero saturates: all 0
split_p(remaining_pct, child_pct) ==
    LET num == remaining_pct - child_pct
    IN  IF remaining_pct = 0 \/ num = 0 THEN 0
        ELSE IF (num < 0) # (remaining_pct < 0) THEN 0
        ELSE LET a == IF num < 0 THEN -num ELSE num
                 b == IF remaining_pct < 0 THEN -remaining_pct ELSE remaining_pct
             IN  SatU8(F32Round(F32Mul100(F32Div(a, b))))

(***************************************************************************)
(* verify_layout_recursive, verify_preset                                  *)
(***************************************************************************)
RECURSIVE SumU8(_, _, _, _)
\* Iterator::sum over u8 from element i on: a build with overflow checks
\* panics on a sum above 255, a build without them wraps
SumU8(xs, i, acc, oc) ==
    IF i > Len(xs) THEN Ok(acc)
    ELSE IF acc + xs[i] >= U8 /\ oc THEN Panic
    ELSE SumU8(xs, i + 1, (acc + xs[i]) % U8, oc)

RECURSIVE verify_layout_recursive(_, _)
RECURSIVE VerifyChildrenFrom(_, _, _)
\* children.iter().map(verify_layout_recursive).collect(): the first failure
VerifyChildrenFrom(children, i, oc) ==
    IF i > Len(children) THEN Ok(<< >>)
    ELSE LET r == verify_layout_recursive(children[i], oc)
         IN  IF ~IsOk(r) THEN r ELSE VerifyChildrenFrom(children, i + 1, oc)

verify_layout_recursive(layout, oc) ==
    IF layout.kind = "Split"
    THEN
        LET percentages == [c \in 1..Len(layout.children) |->
                                percentage(layout.children[c])]
            sum == SumU8(percentages, 1, 0, oc)
        IN  IF ~IsOk(sum) THEN sum
            ELSE IF sum.val # 100
            THEN Err(<< "Percentages ", percentages, " add up to ", sum.val,
                        ", expected 100." >>)
            ELSE VerifyChildrenFrom(layout.children, 1, oc)
    ELSE Ok(<< >>)

RECURSIVE VerifyPresetFrom(_, _, _)
VerifyPresetFrom(windows, i, oc) ==
    IF i > Len(windows) THEN Ok(<< >>)
    ELSE LET r == verify_layout_recursive(windows[i].layout, oc)
         IN  IF ~IsOk(r) THEN r ELSE VerifyPresetFrom(windows, i + 1, oc)

verify_preset(preset, oc) == VerifyPresetFrom(preset.windows, 1, oc)

(***************************************************************************)
(* The preset built by test_spawn_preset (src/tmux/src/lib.rs:292-358)     *)
(***************************************************************************)
TestPreset ==
    LET layout1 ==
            Split("Horizontal",
                  << Pane(None, None, 33), Pane(None, Some("nvim"), 34),
                     Pane(None, None, 33) >>, 100)
        layout2 ==
            Split("Horizontal",
                  << Pane(Some("~/zNix"), Some("nvim"), 50),
                     Split("Vertical",
                           << Pane(Some("~/zNix"), Some("git status"), 50),
                              Pane(Some("~/zNix"), None, 50) >>, 50) >>, 100)
    IN  Preset("test-preset", "~",
               << Window("BOBBY", "~", layout1), Window("BOBBY TWO", "~", layout2) >>)

(***************************************************************************)
(* State                                                                   *)
(***************************************************************************)
VARIABLES
    overflow_checks,  \* whether the build panics on integer overflow (debug)
                      \* or wraps (release)
    doc,              \* the configuration document handed to parse_config
    presets,          \* Option of the result of parse_config
    pc,               \* where the program is
    preset,           \* Option of the Preset handed to spawn_preset
    window_i,         \* spawn_preset: the index i of the window loop
    stack,            \* the activations of apply_layout_recursive, innermost last
    calls,            \* every tmux invocation so far, with its outcome
    result,           \* Option of the value spawn_preset returned
    reparsed,         \* Option of the result of parse_config in a later run
    outstanding,      \* the tmux processes started and not yet waited for
    stdout,           \* the lines that main has printed
    server,           \* the tmux server that the application talks to
    state,            \* Option of the AppState
    sessions_menu,    \* the SessionsMenu of App::run
    presets_menu,     \* the PresetsMenu of App::run
    spawned,          \* Option of the spawn_preset of the iteration just made
    notification,     \* the notification field of the menu of every mode
    events,           \* the notification events waiting in the channel, oldest first
    timers            \* the tasks of send_timed_notification that still sleep

\* the notifications of the menus and the events and timers behind them
channel == << notification, events, timers >>
\* the state of main and of the application
app == << stdout, server, state, sessions_menu, presets_menu, spawned, channel >>
\* the state that parsing and spawning leave alone
outside == << reparsed, app >>

vars ==
    << overflow_checks, doc, presets, pc, preset, window_i, stack, calls, result,
       outstanding, outside >>

(***************************************************************************)
(* The tmux server, as run_command sees it.  A target is                   *)
(* (session, window, pane index).  split-window -P prints the address of   *)
(* the new pane, which tmux places right after its target; the window is   *)
(* printed by index.                                                       *)
(***************************************************************************)
Target(sess, win, pane) == << sess, win, pane >>

\* one run_command: ok tells whether tmux exited with status 0; out is the
\* text it handed back to split_window (None when it failed)
\* path and i tell which node, and which iteration of its loop, made the call
Call(op, target, text, pct, dir, path, i, ok, out) ==
    [op |-> op, target |-> target, text |-> text, pct |-> pct, dir |-> dir,
     path |-> path, i |-> i, ok |-> ok, out |-> out]

\* split_window, lines 185-188
direction_flag(direction) == IF direction = "Horizontal" THEN "-h" ELSE "-v"

\* what split-window -P prints for a split of target in window w (0-based)
SplitOutput(target, w) == Target(target[1], IdxStr(w), target[3] + 1)

\* the text that run_command hands back to split_window: colon and dot tell
\* whether the separators are there, index is None when what follows the dot
\* is not a number
Output(colon, dot, address, numeric) ==
    [colon |-> colon, dot |-> dot, session |-> address[1], window |-> address[2],
     index |-> IF numeric THEN Some(address[3]) ELSE None]
\* the shapes of it: the address, and the three ways of not being one
OutputShapes == {"ok", "no_colon", "no_dot", "not_numeric"}
Outputs(address) ==
    [ok |-> Output(TRUE, TRUE, address, TRUE),
     no_colon |-> Output(FALSE, FALSE, address, TRUE),
     no_dot |-> Output(TRUE, FALSE, address, TRUE),
     not_numeric |-> Output(TRUE, TRUE, address, FALSE)]

\* an index that is not a number is read as 0
ParseOutput_Lenient(output) ==
    IF ~output.colon THEN Err(<< "Unexpected output" >>)
    ELSE IF ~output.dot THEN Err(<< "Unexpected output" >>)
    ELSE Ok(Target(output.session, output.window, UnwrapOr(output.index, 0)))
\* split_window, lines 201-207
ParseOutput(output) ==
    IF ~output.colon THEN Err(<< "Unexpected output" >>)
    ELSE IF ~output.dot THEN Err(<< "Unexpected output" >>)
    ELSE IF output.index = None THEN Err(<< "Parsing error" >>)
    ELSE Ok(Target(output.session, output.window, output.index[1]))

(***************************************************************************)
(* apply_layout_recursive as a stack of activations.  phase: for a Pane    *)
(* "cd" then "command"; for a Split "loop" while it runs the body of an    *)
(* iteration itself, "child" inside the recursive call of line 169, "last" *)
(* inside the one of line 147.  step is the statement of the loop body     *)
(* that comes next.  path is the position of the node: the window index,   *)
(* then the child positions from the root down.                            *)
(***************************************************************************)
Frame(pane_target, node, path) ==
    [node |-> node, pane_target |-> pane_target,
     current_pane_target |-> pane_target, next_pane_target |-> pane_target,
     remaining_pct |-> 100, i |-> 0, step |-> 1,
     phase |-> IF node.kind = "Pane" THEN "cd" ELSE "loop", path |-> path]

Top(stk) == stk[Len(stk)]
Pop(stk) == SubSeq(stk, 1, Len(stk) - 1)
SetTop(stk, f) == [stk EXCEPT ![Len(stk)] = f]

\* the child is materialized before its pane is split
LoopBody_ChildFirst == << "apply_layout_recursive", "split_window" >>
\* the statements of an iteration for a child that is not the last, in order:
\* line 163 and line 169
LoopBody == << "split_window", "apply_layout_recursive" >>

\* the test of line 146 off by one: no child is ever the last
IsLastChild_OffByOne(i, children) == i = Len(children)
\* line 146
IsLastChild(i, children) == i = Len(children) - 1

\* the loop keeps its target
AfterChild_Stale(f) ==
    [f EXCEPT !.remaining_pct = @ - percentage(f.node.children[f.i + 1]),
              !.i = @ + 1, !.step = 1, !.phase = "loop"]
\* lines 172-173, then the next iteration
AfterChild(f) ==
    [f EXCEPT !.current_pane_target = f.next_pane_target,
              !.remaining_pct = @ - percentage(f.node.children[f.i + 1]),
              !.i = @ + 1, !.step = 1, !.phase = "loop"]

\* the first Ok(()) ends the layout of the window
Return_Outermost(stk) == << >>

RECURSIVE Return(_)
RECURSIVE Resume(_)
\* the innermost activation has finished a statement of its loop body: the
\* next statement, the next iteration, or Ok(()) at line 175 after the last
Resume(stk) ==
    LET f == Top(stk)
    IN  IF f.step < Len(LoopBody)
        THEN SetTop(stk, [f EXCEPT !.step = @ + 1, !.phase = "loop"])
        ELSE IF f.i + 1 < Len(f.node.children)
        THEN SetTop(stk, AfterChild(f))
        ELSE Return(stk)

\* the innermost activation returns Ok(()): its caller goes on, after line 147
\* with the break and Ok(()), after line 169 with the rest of the loop body
Return(stk) ==
    LET rest == Pop(stk)
    IN  IF rest = << >> THEN rest
        ELSE IF Top(rest).phase = "last" THEN Return(rest)
        ELSE Resume(rest)

(***************************************************************************)
(* Configuration documents of the model                                    *)
(***************************************************************************)
PaneNode(size, command, cwd) ==
    KdlNode("pane", [NoProps EXCEPT !.size = size, !.command = command, !.cwd = cwd],
            None)
SplitNode(direction, size, children) ==
    KdlNode("split", [NoProps EXCEPT !.direction = direction, !.size = size], children)
WindowNode(name, cwd, children) ==
    KdlNode("window", [NoProps EXCEPT !.name = name, !.cwd = cwd], children)
SessionNode(name, cwd, children) ==
    KdlNode("session", [NoProps EXCEPT !.name = name, !.cwd = cwd], children)

SeqsUpTo(S, lo, hi) == UNION {[1..n -> S] : n \in lo..hi}

\* the sizes a config gives: the documented examples (20/30/50, 33/-/33), a
\* rounding tie of the split percentage (60/19/-), sums above 100 and above
\* 255, a size above 255
SizeVals == {0, 19, 20, 30, 33, 50, 60, 100, 156, 200, 300}
SizeAttrs == {None} \cup {Some(v) : v \in SizeVals}

\* one session, one window, whose root holds the given nodes
OneWindowDoc(roots) ==
    << SessionNode(Some("foo"), None,
                   Some(<< WindowNode(None, None, Some(roots)) >>)) >>

\* the sizes that a split of more than two children is given
ManySizes == {19, 20, 30, 33, 50, 60, 100, 156}
ManyAttrs == {None} \cup {Some(v) : v \in ManySizes}

\* a root split over one or two panes of every size, and over more panes of
\* the sizes of ManySizes
SizeDocs ==
    {OneWindowDoc(<< SplitNode(Some("h"), None, Some(kids)) >>) :
        kids \in SeqsUpTo({PaneNode(sz, None, None) : sz \in SizeAttrs}, 1, 2)
                 \cup SeqsUpTo({PaneNode(sz, None, None) : sz \in ManyAttrs}, 3, MaxChildren)}

\* a root split over panes and nested splits
NestSizes == {None, Some(50)}
NestPanes == {PaneNode(sz, None, None) : sz \in NestSizes}
\* the children of a nested split: up to two panes of either size, or more
\* panes without a size
NestKids ==
    SeqsUpTo(NestPanes, 0, 2) \cup SeqsUpTo({PaneNode(None, None, None)}, 3, MaxChildren - 1)
NestElems ==
    NestPanes \cup
    {SplitNode(None, sz, Some(kids)) : sz \in NestSizes, kids \in NestKids}
NestDocs ==
    {OneWindowDoc(<< SplitNode(Some("h"), Some(50), Some(kids)) >>) :
        kids \in SeqsUpTo(NestElems, 1, 2)}

\* sessions of several windows, with every kind of window body
WindowBodies ==
    { None, Some(<< >>),
      Some(<< PaneNode(Some(40), Some("nvim"), Some("/src")) >>),
      Some(<< SplitNode(Some("v"), Some(70),
                 Some(<< PaneNode(Some(20), None, None),
                         PaneNode(Some(30), Some("nvim"), None),
                         PaneNode(Some(50), None, None) >>)) >>),
      Some(<< KdlNode("foo", NoProps, Some(<< >>)) >>),
      Some(<< PaneNode(None, None, None), PaneNode(None, None, None) >>) }
WindowNodes ==
    {WindowNode(np[1], np[2], body) :
        np \in {<< None, None >>, << Some("w"), Some("/p") >>}, body \in WindowBodies}
WindowDocs ==
    {<< SessionNode(Some("foo"), None, Some(ws)) >> :
        ws \in SeqsUpTo(WindowNodes, 0, MaxWindows)}

\* documents at the session level
SessionDocs ==
    { << >>,
      << SessionNode(Some("bar"), Some("/home"), None),
         SessionNode(Some("baz"), Some("/tmp"), Some(<< >>)) >>,
      << SessionNode(None, None, None) >>,
      << SessionNode(Some("foo"), None, None), SessionNode(None, None, None) >>,
      << SessionNode(Some("foo"), None, None), KdlNode("window", NoProps, None),
         SessionNode(Some("bar"), None, None) >>,
      << SessionNode(Some("foo"), None, None),
         SessionNode(Some("bar"), None, Some(<< KdlNode("pane", NoProps, None) >>)),
         SessionNode(None, None, None) >>,
      << KdlNode("window", NoProps, None) >>,
      << SessionNode(Some("foo"), None, Some(<< KdlNode("pane", NoProps, None) >>)) >>,
      << SessionNode(Some("foo"), None, None),
         SessionNode(Some("bar"), None, Some(<< WindowNode(Some("x"), None, None) >>)),
         SessionNode(Some("foo"), Some("/x"), None) >> }

\* sizes outside 0..255, which the cast of line 152 brings back into it
WideSizes == {-156, -1, 255, 256}
WideDocs ==
    {OneWindowDoc(<< SplitNode(Some("v"), None, Some(kids)) >>) :
        kids \in SeqsUpTo({PaneNode(sz, None, None) :
                              sz \in {None} \cup {Some(v) : v \in WideSizes}}, 1, 2)}

\* a session of two windows: a split that divides evenly and one that does not
ShareDoc ==
    << SessionNode(Some("foo"), None,
          Some(<< WindowNode(None, None,
                     Some(<< SplitNode(Some("h"), None,
                                Some(<< PaneNode(Some(33), None, None),
                                        PaneNode(None, Some("nvim"), None),
                                        PaneNode(Some(33), None, None) >>)) >>)),
                  WindowNode(None, None,
                     Some(<< SplitNode(Some("h"), None,
                                Some(<< PaneNode(None, None, None),
                                        PaneNode(None, None, None),
                                        PaneNode(None, None, None) >>)) >>)) >>)) >>

\* sessions with and without cwd, over windows with and without name and
\* cwd, over panes with and without cwd at two depths
CwdWindows ==
    << WindowNode(Some("edit"), None,
          Some(<< SplitNode(Some("h"), None,
                     Some(<< PaneNode(None, None, None),
                             SplitNode(None, None,
                                Some(<< PaneNode(None, Some("nvim"), Some("/own")),
                                        PaneNode(None, None, None) >>)) >>)) >>)),
       WindowNode(None, Some("/w"),
          Some(<< SplitNode(None, None,
                     Some(<< SplitNode(Some("h"), None,
                                Some(<< PaneNode(None, None, None) >>)),
                             PaneNode(None, None, None) >>)) >>)),
       WindowNode(None, None, Some(<< PaneNode(None, None, None) >>)) >>
CwdDocs ==
    {<< SessionNode(Some("foo"), cwd, Some(CwdWindows)) >> : cwd \in {None, Some("/s")}}

\* nodes of a name their place does not allow: in a split, in a nested
\* split, in a session after a window, next to a second root, and under a
\* split of an invalid direction
UnknownDocs ==
    { OneWindowDoc(<< SplitNode(Some("h"), None,
                         Some(<< PaneNode(None, None, None),
                                 KdlNode("bar", NoProps, None) >>)) >>),
      OneWindowDoc(<< SplitNode(None, None,
                         Some(<< SplitNode(None, None,
                                    Some(<< KdlNode("window", NoProps, Some(<< >>)) >>)),
                                 PaneNode(None, None, None) >>)) >>),
      << SessionNode(Some("foo"), None,
            Some(<< WindowNode(None, None, None),
                    KdlNode("split", NoProps, None) >>)) >>,
      OneWindowDoc(<< KdlNode("foo", NoProps, Some(<< >>)), PaneNode(None, None, None) >>),
      OneWindowDoc(<< SplitNode(Some("x"), None,
                         Some(<< KdlNode("bar", NoProps, None) >>)) >>) }

\* splits without child block, at the root and three splits down
EmptySplitDocs ==
    { OneWindowDoc(<< SplitNode(None, None, None) >>),
      OneWindowDoc(<< SplitNode(Some("h"), None,
                         Some(<< PaneNode(None, None, None),
                                 SplitNode(Some("v"), None,
                                    Some(<< SplitNode(None, None, None) >>)) >>)) >>) }

\* every spelling of the direction, at the root and one split down, and one
\* that is none
Directions == {None, Some("h"), Some("horizontal"), Some("v"), Some("vertical")}
DirectionDocs ==
    {OneWindowDoc(<< SplitNode(d[1], None,
                        Some(<< PaneNode(None, None, None),
                                SplitNode(d[2], None,
                                   Some(<< PaneNode(None, None, None),
                                           PaneNode(None, None, None) >>)) >>)) >>) :
        d \in Directions \X Directions}
    \cup {OneWindowDoc(<< SplitNode(Some("x"), None,
                              Some(<< PaneNode(None, None, None) >>)) >>)}

Docs ==
    SizeDocs \cup NestDocs \cup WindowDocs \cup SessionDocs \cup WideDocs \cup {ShareDoc}
    \cup CwdDocs \cup UnknownDocs \cup EmptySplitDocs \cup DirectionDocs

\* the modes of the application, each with its menu
AppMode == {"Sessions", "Create", "Rename", "Delete", "Presets"}
\* no menu shows a notification
NoNotification == [mode \in AppMode |-> None]

(***************************************************************************)
(* Init                                                                    *)
(***************************************************************************)
Init ==
    /\ overflow_checks \in BOOLEAN
    /\ \/ pc = "parse" /\ doc \in Docs
       \/ pc = "test" /\ doc = << >>
    /\ presets = None
    /\ preset = None
    /\ window_i = 0
    /\ stack = << >>
    /\ calls = << >>
    /\ result = None
    /\ reparsed = None
    /\ outstanding = 0
    /\ stdout = << >>
    /\ server = [names |-> {}, attached |-> None]
    /\ state = None
    /\ sessions_menu = None
    /\ presets_menu = None
    /\ spawned = None
    /\ notification = NoNotification
    /\ events = << >>
    /\ timers = 0

(***************************************************************************)
(* parse_config, called by main (src/muffin/src/main.rs:82-85)             *)
(***************************************************************************)
ParseConfig ==
    /\ pc = "parse"
    /\ presets' = Some(parse_config(doc, overflow_checks))
    /\ pc' = IF IsOk(presets'[1]) THEN "parsed" ELSE "exit"
    /\ UNCHANGED << outside, overflow_checks, doc, preset, window_i, stack, calls, outstanding, result >>

\* the second run sees what the first one left behind
ParseAgain_Ambient ==
    /\ pc = "done"
    /\ result = Some(Ok(<< >>))
    /\ reparsed = None
    /\ reparsed' = Some(IF calls = << >> THEN parse_config(doc, overflow_checks)
                        ELSE Ok(<< >>))
    /\ UNCHANGED << overflow_checks, doc, presets, pc, preset, window_i, stack, calls,
                    outstanding, result, app >>
\* the program is run again on the same configuration text, after a preset
\* was spawned and has changed what is outside it
ParseAgain ==
    /\ pc = "done"
    /\ result = Some(Ok(<< >>))
    /\ reparsed = None
    /\ reparsed' = Some(parse_config(doc, overflow_checks))
    /\ UNCHANGED << overflow_checks, doc, presets, pc, preset, window_i, stack, calls,
                    outstanding, result, app >>

(***************************************************************************)
(* spawn_preset (src/tmux/src/lib.rs:70-111)                               *)
(***************************************************************************)
\* line 71: verify_preset(&preset)?
\* the preset is spawned whatever verify_preset says
SpawnEntry_Unverified(p) ==
    /\ preset' = Some(p)
    /\ pc' = "create_session" /\ result' = None
    /\ UNCHANGED << outside, overflow_checks, doc, presets, window_i, stack, calls, outstanding >>
SpawnEntry(p) ==
    LET v == verify_preset(p, overflow_checks)
    IN  /\ preset' = Some(p)
        /\ IF IsOk(v)
           THEN pc' = "create_session" /\ result' = None
           ELSE pc' = "done" /\ result' = Some(v)
        /\ UNCHANGED << outside, overflow_checks, doc, presets, window_i, stack, calls, outstanding >>

\* main --start-preset, or Enter in the presets menu
SpawnPreset ==
    /\ pc = "parsed"
    /\ \E name \in DOMAIN presets[1].val : SpawnEntry(presets[1].val[name])

\* test_spawn_preset
TestSpawnPreset ==
    /\ pc = "test"
    /\ SpawnEntry(TestPreset)

\* the process is started and left running, its result taken for granted
run_command_Spawn(call) ==
    /\ calls' = Append(calls, call)
    /\ outstanding' = outstanding + 1
\* run_command: Command::output starts tmux and waits until it has exited, so
\* one step of the model is one invocation from its start to its return
run_command(call) ==
    /\ calls' = Append(calls, call)
    /\ outstanding' = outstanding

\* the error of run_command is dropped and the caller goes on
Failed_Ignored(call, err) ==
    /\ run_command(call)
    /\ UNCHANGED << result, pc, window_i, stack >>
\* run_command(...)? failed: the error is returned at once
Failed(call, err) ==
    /\ run_command(call)
    /\ result' = Some(Err(err))
    /\ pc' = "done"
    /\ UNCHANGED << window_i, stack >>

\* apply_layout_recursive returned Ok to spawn_preset: the window loop goes on
WindowDone ==
    IF window_i + 1 < Len(preset[1].windows)
    THEN pc' = "window" /\ window_i' = window_i + 1 /\ result' = result
    ELSE pc' = "done" /\ window_i' = window_i /\ result' = Some(Ok(<< >>))

\* line 72: create_session(&preset.name)?
CreateSession ==
    /\ pc = "create_session"
    /\ \E ok \in BOOLEAN :
        LET name == preset[1].name
            call == Call("new-session", << >>,
                         IF name = "" THEN None ELSE Some(name),
                         None, None, << >>, None, ok, None)
        IN  IF ok
            THEN /\ run_command(call)
                 /\ IF preset[1].windows = << >>
                    THEN pc' = "done" /\ result' = Some(Ok(<< >>))
                    ELSE pc' = "window" /\ result' = result
                 /\ UNCHANGED << window_i, stack >>
            ELSE Failed(call, << "stderr", call.op >>)
    /\ UNCHANGED << outside, overflow_checks, doc, presets, preset >>

\* lines 105-107: the initial pane of the window, and the call of
\* apply_layout_recursive
EnterWindow(window_cfg) ==
    LET window_target == << preset[1].name, window_cfg.name >>
        initial_pane == Target(window_target[1], window_target[2], 0)
    IN  /\ stack' = << Frame(initial_pane, window_cfg.layout, << window_i >>) >>
        /\ pc' = "apply"
        /\ UNCHANGED << window_i, result >>

\* every window is created anew
IsDefaultWindow_Never(i) == FALSE
\* line 75: the window that new-session created
IsDefaultWindow(i) == i = 0

\* lines 75-86: window 0 is the one new-session created
RenameWindow ==
    /\ pc = "window"
    /\ IsDefaultWindow(window_i)
    /\ \E ok \in BOOLEAN :
        LET window_cfg == preset[1].windows[window_i + 1]
            call == Call("rename-window", << preset[1].name, "0" >>,
                         Some(window_cfg.name), None, None, << window_i >>, None, ok, None)
        IN  IF ok
            THEN run_command(call) /\ EnterWindow(window_cfg)
            ELSE Failed(call, << "stderr", call.op >>)
    /\ UNCHANGED << outside, overflow_checks, doc, presets, preset >>

\* lines 87-103: the later windows
NewWindow ==
    /\ pc = "window"
    /\ ~IsDefaultWindow(window_i)
    /\ \E ok \in BOOLEAN :
        LET window_cfg == preset[1].windows[window_i + 1]
            call == Call("new-window", << preset[1].name >>,
                         Some(window_cfg.name), None, None, << window_i >>, None, ok, None)
        IN  IF ok
            THEN run_command(call) /\ EnterWindow(window_cfg)
            ELSE Failed(call, << "stderr", call.op >>)
    /\ UNCHANGED << outside, overflow_checks, doc, presets, preset >>

(***************************************************************************)
(* apply_layout_recursive (src/tmux/src/lib.rs:113-178)                    *)
(***************************************************************************)
\* the stack after a step of the innermost activation; when the outermost
\* activation has returned, spawn_preset goes on
Continue(stk) ==
    /\ stack' = stk
    /\ IF stk = << >>
       THEN WindowDone
       ELSE UNCHANGED << pc, window_i, result >>

\* the text is typed and left unsubmitted
CdKeys_NoEnter(path) == << << "cd ", path >> >>
\* lines 123-124: what send-keys is given after the target
CdKeys(path) == << << "cd ", path >>, "Enter" >>
\* line 131
CommandKeys(cmd) == << << cmd >>, "Enter" >>

\* lines 116-128: cd to cwd if provided
SendKeysCd ==
    /\ pc = "apply"
    /\ Top(stack).phase = "cd"
    /\ LET f == Top(stack)
       IN  IF IsSome(f.node.cwd)
           THEN \E ok \in BOOLEAN :
                LET call == Call("send-keys", f.pane_target, Some(CdKeys(f.node.cwd[1])),
                                 None, None, f.path, None, ok, None)
                IN  IF ok
                    THEN /\ run_command(call)
                         /\ Continue(SetTop(stack, [f EXCEPT !.phase = "command"]))
                    ELSE Failed(call, << "stderr", call.op >>)
           ELSE /\ UNCHANGED << calls, outstanding >>
                /\ Continue(SetTop(stack, [f EXCEPT !.phase = "command"]))
    /\ UNCHANGED << outside, overflow_checks, doc, presets, preset >>

\* lines 129-133: run command if provided, then Ok(())
SendKeysCommand ==
    /\ pc = "apply"
    /\ Top(stack).phase = "command"
    /\ LET f == Top(stack)
       IN  IF IsSome(f.node.command)
           THEN \E ok \in BOOLEAN :
                LET call == Call("send-keys", f.pane_target,
                                 Some(CommandKeys(f.node.command[1])),
                                 None, None, f.path, None, ok, None)
                IN  IF ok
                    THEN run_command(call) /\ Continue(Return(stack))
                    ELSE Failed(call, << "stderr", call.op >>)
           ELSE UNCHANGED << calls, outstanding >> /\ Continue(Return(stack))
    /\ UNCHANGED << outside, overflow_checks, doc, presets, preset >>

\* lines 146-149: the last child takes what is left of current_pane_target
ApplyLastChild ==
    /\ pc = "apply"
    /\ Top(stack).phase = "loop"
    /\ LET f == Top(stack)
       IN  /\ IsLastChild(f.i, f.node.children)
           /\ stack' = Append(SetTop(stack, [f EXCEPT !.phase = "last"]),
                              Frame(f.current_pane_target, f.node.children[f.i + 1],
                                    Append(f.path, f.i)))
    /\ UNCHANGED << outside, overflow_checks, doc, presets, preset, pc, window_i, calls, outstanding, result >>

\* lines 151-166: split current_pane_target; the new pane is the next target.
\* split_window fails when tmux does, and when its output is not an address
SplitWindow ==
    /\ pc = "apply"
    /\ Top(stack).phase = "loop"
    /\ LET f == Top(stack)
           child == f.node.children[f.i + 1]
           child_pct == percentage(child)
       IN  /\ ~IsLastChild(f.i, f.node.children)
           /\ LoopBody[f.step] = "split_window"
           /\ \E outcome \in {"failed"} \cup OutputShapes :
                LET output ==
                        IF outcome = "failed" THEN None
                        ELSE Some(Outputs(SplitOutput(f.current_pane_target,
                                                      window_i))[outcome])
                    call == Call("split-window", f.current_pane_target, None,
                                 Some(split_p(f.remaining_pct, child_pct)),
                                 Some(direction_flag(f.node.direction)), f.path, Some(f.i),
                                 outcome # "failed", output)
                    address == IF outcome = "failed" THEN Err(<< "stderr", call.op >>)
                               ELSE ParseOutput(output[1])
                IN  IF IsOk(address)
                    THEN /\ run_command(call)
                         /\ Continue(Resume(SetTop(stack,
                                [f EXCEPT !.next_pane_target = address.val])))
                    ELSE Failed(call, address.msg)
    /\ UNCHANGED << outside, overflow_checks, doc, presets, preset >>

\* lines 168-169: recurse into the child that was carved out
ApplyChild ==
    /\ pc = "apply"
    /\ Top(stack).phase = "loop"
    /\ LET f == Top(stack)
       IN  /\ ~IsLastChild(f.i, f.node.children)
           /\ LoopBody[f.step] = "apply_layout_recursive"
           /\ stack' = Append(SetTop(stack, [f EXCEPT !.phase = "child"]),
                              Frame(f.current_pane_target, f.node.children[f.i + 1],
                                    Append(f.path, f.i)))
    /\ UNCHANGED << outside, overflow_checks, doc, presets, preset, pc, window_i, calls, outstanding, result >>

Next ==
    \/ ParseConfig
    \/ ParseAgain
    \/ SpawnPreset
    \/ TestSpawnPreset
    \/ CreateSession
    \/ RenameWindow
    \/ NewWindow
    \/ SendKeysCd
    \/ SendKeysCommand
    \/ ApplyLastChild
    \/ SplitWindow
    \/ ApplyChild

Spec == Init /\ [][Next]_vars

(***************************************************************************)
(* main with --list-presets or without options, and the loop of App::run   *)
(* (src/muffin/src/main.rs, src/muffin/src/app/driver.rs, the menus).      *)
(* The search bar of the sessions menu stays empty, and what is typed into *)
(* the text areas of the create and rename menus is chosen when Enter is   *)
(* pressed.                                                                *)
(***************************************************************************)
\* String's Ord compares the bytes of two names; these are the bytes of the
\* session names that the documents of AppDocs and the server use
Utf8 ==
    [bar |-> << 98, 97, 114 >>, baz |-> << 98, 97, 122 >>, foo |-> << 102, 111, 111 >>]
RECURSIVE BytesLess(_, _)
BytesLess(a, b) ==
    IF b = << >> THEN FALSE
    ELSE IF a = << >> THEN TRUE
    ELSE IF a[1] # b[1] THEN a[1] < b[1]
    ELSE BytesLess(Tail(a), Tail(b))
StrLess(a, b) == BytesLess(Utf8[a], Utf8[b])

\* the names of S from the least to the greatest
RECURSIVE Ascending(_)
Ascending(S) ==
    IF S = {} THEN << >>
    ELSE LET least == CHOOSE k \in S : \A o \in S \ {k} : StrLess(k, o)
         IN  << least >> \o Ascending(S \ {least})

\* the values from the greatest key to the least
values_Descending(map) ==
    LET ks == Ascending(DOMAIN map)
    IN  [i \in 1..Len(ks) |-> map[ks[Len(ks) + 1 - i]]]
\* BTreeMap::values: the values in ascending order of their keys
values(map) ==
    LET ks == Ascending(DOMAIN map)
    IN  [i \in 1..Len(ks) |-> map[ks[i]]]

\* Iterator::nth
nth(xs, index) == IF index < Len(xs) THEN Some(xs[index + 1]) ELSE None

\* usize::MAX, as far as the model needs it: beyond every index of a list
USizeMax == 2147483647
saturating_sub(a, b) == IF a >= b THEN a - b ELSE 0
saturating_add(a, b) == IF a >= USizeMax - b THEN USizeMax ELSE a + b
clamp(v, lo, hi) == IF v < lo THEN lo ELSE IF v > hi THEN hi ELSE v
div_ceil(a, b) == (a + b - 1) \div b

\* ratatui's ListState, an Option of the selected index
ListSelectNext(selected) ==
    Some(IF selected = None THEN 0 ELSE saturating_add(selected[1], 1))
ListSelectPrevious(selected) ==
    Some(IF selected = None THEN USizeMax ELSE saturating_sub(selected[1], 1))
ListSelectFirst == Some(0)
ListSelectLast == Some(USizeMax)
\* rendering a list of length items brings the selection back into it
ListRender(selected, length) ==
    IF length = 0 THEN None
    ELSE IF selected # None /\ selected[1] >= length THEN Some(length - 1)
    ELSE selected

\* .selected().map(|idx| idx.clamp(0, length.saturating_sub(1)))
Clamped(selected, length) ==
    IF selected = None THEN None
    ELSE Some(clamp(selected[1], 0, saturating_sub(length, 1)))

\* the movement keys of both lists
Movement == {"j", "k", "g", "M", "G"}
Moved(selected, code, length) ==
    CASE code = "j" -> ListSelectNext(selected)
      [] code = "k" -> ListSelectPrevious(selected)
      [] code = "g" -> ListSelectFirst
      [] code = "M" -> IF length > 0 THEN Some(div_ceil(saturating_sub(length, 1), 2))
                       ELSE selected
      [] code = "G" -> ListSelectLast

(***************************************************************************)
(* The tmux server of the application: the names of its sessions and the   *)
(* session the client is attached to                                       *)
(***************************************************************************)
ServerNames == {"bar", "foo"}
Servers ==
    {[names |-> S, attached |-> a] :
        S \in SUBSET ServerNames, a \in {None} \cup {Some(n) : n \in ServerNames}}
WellFormedServers == {srv \in Servers : srv.attached = None \/ srv.attached[1] \in srv.names}

Session(name, active) == [name |-> name, active |-> active]

\* list_sessions: one Session for each line that tmux list-sessions prints
list_sessions(srv) ==
    LET ks == Ascending(srv.names)
    IN  [i \in 1..Len(ks) |-> Session(ks[i], srv.attached = Some(ks[i]))]

\* Iterator::position(|s| s.active)
position_active(sessions) ==
    IF \E i \in 1..Len(sessions) : sessions[i].active
    THEN Some((CHOOSE i \in 1..Len(sessions) :
                  /\ sessions[i].active
                  /\ \A j \in 1..(i - 1) : ~sessions[j].active) - 1)
    ELSE None

\* new-session -s name -d
TmuxNewSession(srv, name) == [srv EXCEPT !.names = @ \cup {name}]
\* rename-session -t target new_name
TmuxRenameSession(srv, target, new_name) ==
    [names |-> (srv.names \ {target}) \cup {new_name},
     attached |-> IF srv.attached = Some(target) THEN Some(new_name) ELSE srv.attached]
\* kill-session -t target
TmuxKillSession(srv, target) ==
    [names |-> srv.names \ {target},
     attached |-> IF srv.attached = Some(target) THEN None ELSE srv.attached]
\* switch-client -t target
TmuxSwitchClient(srv, target) == [srv EXCEPT !.attached = Some(target)]

\* spawn_preset as the application sees it: its result, and whether its
\* session has come to exist (a later call may fail after new-session); the
\* text of an error is what tmux has written to its stderr
SpawnOutcomes(p, srv, oc) ==
    LET v == verify_preset(p, oc)
    IN  IF ~IsOk(v) THEN {[result |-> v, server |-> srv]}
        ELSE IF p.name \in srv.names
        THEN {[result |-> Err(<< "stderr" >>), server |-> srv]}
        ELSE {[result |-> Err(<< "stderr" >>), server |-> srv],
              [result |-> Err(<< "stderr" >>), server |-> TmuxNewSession(srv, p.name)],
              [result |-> Ok(<< >>), server |-> TmuxNewSession(srv, p.name)]}

(***************************************************************************)
(* The state of the application                                            *)
(***************************************************************************)
\* what the actions of main and of the loop leave alone
inside ==
    << overflow_checks, doc, presets, preset, window_i, stack, calls, result,
       outstanding, reparsed >>

\* App::new
AppState(sessions, map) ==
    [mode |-> "Sessions", exit |-> FALSE, sessions |-> sessions,
     selected_session |-> None, presets |-> map, selected_preset |-> None]

\* the events of the loop: keys, and what needs no handling
KeyCodes == Movement \cup {"Tab", "q", "Enter", "Esc", "a", "r", "d", "y", "n", "c"}
AppEvents ==
    {[kind |-> "Key", code |-> k, ctrl |-> FALSE] : k \in KeyCodes}
        \cup {[kind |-> "Key", code |-> "c", ctrl |-> TRUE], [kind |-> "Redraw"]}

\* Ctrl+C ends the application from its list of sessions only
CtrlC_InSessions(s, event) ==
    IF event.kind = "Key" /\ event.ctrl /\ event.code = "c" /\ s.mode = "Sessions"
    THEN [s EXCEPT !.exit = TRUE] ELSE s
\* lines 170-175: Ctrl+C
CtrlC(s, event) ==
    IF event.kind = "Key" /\ event.ctrl /\ event.code = "c"
    THEN [s EXCEPT !.exit = TRUE] ELSE s

\* the draw phase: the sessions menu is always rendered, the presets menu in
\* its mode; the menus keep their notifications
Drawn ==
    [sessions_menu |->
        [list_state |-> ListRender(sessions_menu.list_state, Len(state[1].sessions))],
     presets_menu |->
        IF state[1].mode = "Presets"
        THEN [list_state |-> ListRender(presets_menu.list_state,
                                        Cardinality(DOMAIN state[1].presets))]
        ELSE presets_menu,
     notification |-> notification]

\* the title of the Rename and Delete dialogs: selected_session.unwrap(),
\* and state.sessions[index] when the dialog shows no notification
RenderPanics(s, shown) ==
    /\ s.mode \in {"Rename", "Delete"}
    /\ \/ s.selected_session = None
       \/ shown[s.mode] = None /\ s.selected_session[1] >= Len(s.sessions)

\* the events that send_timed_notification sends
ShowNotification(msg) == [kind |-> "ShowNotification", msg |-> msg]
ClearNotification == [kind |-> "ClearNotification"]

\* what a handler leaves behind when it changes nothing: result is the
\* Option of what the backend operation returned, notify the Option of the
\* message handed to send_timed_notification
Handled(s, d, srv) ==
    [state |-> s, server |-> srv, sessions_menu |-> d.sessions_menu,
     presets_menu |-> d.presets_menu, spawned |-> None, panicked |-> FALSE,
     notification |-> d.notification, result |-> None, notify |-> None]

\* the mode is left whatever the operation returned
ErrArm_Leaves(base, msg) ==
    [base EXCEPT !.result = Some(Err(msg)), !.notify = Some(msg), !.state.mode = "Sessions"]
\* the backend operation of a handler failed with msg
ErrArm(base, msg) == [base EXCEPT !.result = Some(Err(msg)), !.notify = Some(msg)]

\* the arms of every menu for the events that are no key
NotKey(base, mode, event) ==
    CASE event.kind = "ShowNotification" ->
            {[base EXCEPT !.notification[mode] = Some(event.msg)]}
      [] event.kind = "ClearNotification" ->
            {[base EXCEPT !.notification[mode] = None]}
      [] OTHER -> {base}

\* SessionsMenu::verify_index, every session being displayed
verify_index(x, length) == IF x # None /\ x[1] < length THEN x ELSE None

\* SessionsMenu::handle_event in its normal mode
SessionsHandled(s, d, srv, event) ==
    LET base == Handled(s, d, srv)
        length == Len(s.sessions)
        selected == d.sessions_menu.list_state
    IN  IF event.kind # "Key" THEN NotKey(base, "Sessions", event)
        ELSE IF event.code \in Movement
        THEN LET moved == Moved(selected, event.code, length)
             IN  {[base EXCEPT !.sessions_menu.list_state = moved,
                               !.state.selected_session =
                                    verify_index(Clamped(moved, length), length)]}
        ELSE CASE event.code = "a" -> {[base EXCEPT !.state.mode = "Create"]}
               [] event.code = "r" -> {[base EXCEPT !.state.mode = "Rename"]}
               [] event.code = "d" -> {[base EXCEPT !.state.mode = "Delete"]}
               [] event.code = "Tab" -> {[base EXCEPT !.state.mode = "Presets"]}
               [] event.code = "q" -> {[base EXCEPT !.state.exit = TRUE]}
               [] event.code = "Enter" ->
                    IF selected = None THEN {base}
                    ELSE IF selected[1] >= length THEN {[base EXCEPT !.panicked = TRUE]}
                    ELSE LET name == s.sessions[selected[1] + 1].name
                         IN  {ErrArm(base, << "stderr" >>)} \cup
                             (IF name \in srv.names
                              THEN {[base EXCEPT !.server = TmuxSwitchClient(srv, name),
                                                 !.result = Some(Ok(<< >>))]}
                              ELSE {})
               [] OTHER -> {base}

\* PresetsMenu::handle_event
PresetsHandled(s, d, srv, event, oc) ==
    LET base == Handled(s, d, srv)
        length == Cardinality(DOMAIN s.presets)
        selected == d.presets_menu.list_state
    IN  IF event.kind # "Key" THEN NotKey(base, "Presets", event)
        ELSE IF event.code \in Movement
        THEN LET moved == Moved(selected, event.code, length)
             IN  {[base EXCEPT !.presets_menu.list_state = moved,
                               !.state.selected_preset = Clamped(moved, length)]}
        ELSE CASE event.code = "Tab" -> {[base EXCEPT !.state.mode = "Sessions"]}
               [] event.code = "q" -> {[base EXCEPT !.state.exit = TRUE]}
               [] event.code = "Enter" ->
                    IF s.selected_preset = None THEN {base}
                    ELSE LET index == s.selected_preset[1]
                             p == nth(values(s.presets), index)
                         IN  IF p = None THEN {[base EXCEPT !.panicked = TRUE]}
                             ELSE {[base EXCEPT
                                      !.panicked = o.result.tag = "Panic",
                                      !.server = o.server,
                                      !.spawned = Some([index |-> index, name |-> p[1].name,
                                                        result |-> o.result]),
                                      !.result = Some(o.result),
                                      !.notify = IF o.result.tag = "Err"
                                                 THEN Some(o.result.msg) ELSE None,
                                      !.state.mode = IF IsOk(o.result) THEN "Sessions"
                                                     ELSE s.mode] :
                                   o \in SpawnOutcomes(p[1], srv, oc)}
               [] OTHER -> {base}

\* CreateMenu::handle_event
CreateHandled(s, d, srv, event) ==
    LET base == Handled(s, d, srv)
    IN  IF event.kind # "Key" THEN NotKey(base, "Create", event)
        ELSE CASE event.code = "Esc" -> {[base EXCEPT !.state.mode = "Sessions"]}
               [] event.code = "Enter" ->
                    {ErrArm(base, << "stderr" >>)} \cup
                    {[base EXCEPT !.server = TmuxNewSession(srv, text),
                                  !.result = Some(Ok(<< >>)),
                                  !.state.mode = "Sessions"] :
                        text \in ServerNames \ srv.names}
               [] OTHER -> {base}

\* RenameMenu::handle_event
RenameHandled(s, d, srv, event) ==
    LET base == Handled(s, d, srv)
    IN  IF event.kind # "Key" THEN NotKey(base, "Rename", event)
        ELSE CASE event.code = "Esc" -> {[base EXCEPT !.state.mode = "Sessions"]}
               [] event.code = "Enter" ->
                    IF s.selected_session = None THEN {base}
                    ELSE IF s.selected_session[1] >= Len(s.sessions)
                    THEN {[base EXCEPT !.panicked = TRUE]}
                    ELSE LET name == s.sessions[s.selected_session[1] + 1].name
                         IN  {ErrArm(base, << "stderr" >>)} \cup
                             (IF name \in srv.names
                              THEN {[base EXCEPT
                                       !.server = TmuxRenameSession(srv, name, text),
                                       !.result = Some(Ok(<< >>)),
                                       !.state.mode = "Sessions"] :
                                    text \in ServerNames \ srv.names}
                              ELSE {})
               [] OTHER -> {base}

\* DeleteMenu::handle_event
DeleteHandled(s, d, srv, event) ==
    LET base == Handled(s, d, srv)
    IN  IF event.kind # "Key" THEN NotKey(base, "Delete", event)
        ELSE CASE event.code \in {"y", "Enter"} ->
                    IF s.selected_session = None THEN {base}
                    ELSE IF s.selected_session[1] >= Len(s.sessions)
                    THEN {[base EXCEPT !.panicked = TRUE]}
                    ELSE LET name == s.sessions[s.selected_session[1] + 1].name
                         IN  {ErrArm(base, << "stderr" >>)} \cup
                             (IF name \in srv.names
                              THEN {[base EXCEPT !.server = TmuxKillSession(srv, name),
                                                 !.result = Some(Ok(<< >>)),
                                                 !.state.mode = "Sessions"]}
                              ELSE {})
               [] event.code \in {"n", "Esc"} -> {[base EXCEPT !.state.mode = "Sessions"]}
               [] OTHER -> {base}

\* the presets are built anew, without their windows
ClearRunning_Rebuilt(map) == [n \in DOMAIN map |-> Preset(map[n].name, map[n].cwd, << >>)]
\* lines 191-193: every preset is taken for dead
ClearRunning(map) == [n \in DOMAIN map |-> [map[n] EXCEPT !.running = FALSE]]
\* lines 197-201 from session i on: a preset with the name of a session runs
RECURSIVE MarkRunning(_, _, _)
MarkRunning(map, sessions, i) ==
    IF i > Len(sessions) THEN map
    ELSE MarkRunning(IF sessions[i].name \in DOMAIN map
                     THEN [map EXCEPT ![sessions[i].name].running = TRUE]
                     ELSE map,
                     sessions, i + 1)
\* the presets keep the flags of the iteration before
Refresh_Stale(s, sessions) ==
    [s EXCEPT !.sessions = sessions, !.presets = MarkRunning(s.presets, sessions, 1)]
\* lines 188-201
Refresh(s, sessions) ==
    [s EXCEPT !.sessions = sessions,
              !.presets = MarkRunning(ClearRunning(s.presets), sessions, 1)]

\* lines 179-185: the event goes to the menu of the mode
Dispatch(s, d, srv, event, oc) ==
    CASE s.mode = "Sessions" -> SessionsHandled(s, d, srv, event)
      [] s.mode = "Create" -> CreateHandled(s, d, srv, event)
      [] s.mode = "Rename" -> RenameHandled(s, d, srv, event)
      [] s.mode = "Delete" -> DeleteHandled(s, d, srv, event)
      [] s.mode = "Presets" -> PresetsHandled(s, d, srv, event, oc)

\* the timed notifications whose ClearNotification has not been received, and
\* the menus that show a notification
InFlight ==
    timers + Len(SelectSeq(events, LAMBDA e : e.kind = "ClearNotification"))
        + Cardinality({mode \in AppMode : notification[mode] # None})

\* the events that next() may return: a key or a redraw of the terminal, or
\* the oldest notification event of the channel
Queued == IF events = << >> THEN {} ELSE {Head(events)}
Incoming == AppEvents \cup Queued

\* lines 170-185 for the event: what the handler may leave, no more than
\* MaxNotifications notifications being under way or on display at a time
Outcomes(event) ==
    {h \in Dispatch(CtrlC(state[1], event), Drawn, server, event, overflow_checks) :
        h.notify = None \/ InFlight < MaxNotifications}

\* App::run is over with this outcome: the App, its menus and its channel
\* are no more
Over(outcome) ==
    /\ pc' = outcome
    /\ state' = None
    /\ sessions_menu' = None
    /\ presets_menu' = None
    /\ spawned' = None
    /\ notification' = NoNotification
    /\ events' = << >>
    /\ timers' = 0

\* what the handlers may leave for the events of from, each with whether its
\* event was taken from the notification events of the channel
Steps(from) ==
    UNION {{[h |-> h, queued |-> event \notin AppEvents] : h \in Outcomes(event)} :
              event \in from}

\* the rest of an iteration whose handler has left h and whose
\* list_sessions()? succeeds: the channel, the sessions and the flags
Iteration(h, queued) ==
    /\ server' = h.server
    /\ IF h.panicked THEN Over("panic")
       ELSE /\ state' = Some(Refresh(h.state, list_sessions(h.server)))
            /\ pc' = "run"
            /\ sessions_menu' = h.sessions_menu
            /\ presets_menu' = h.presets_menu
            /\ spawned' = h.spawned
            /\ notification' = h.notification
            /\ LET rest == IF queued THEN Tail(events) ELSE events
               IN  IF h.notify = None THEN events' = rest /\ timers' = timers
                   ELSE /\ events' = Append(rest, ShowNotification(h.notify[1]))
                        /\ timers' = timers + 1
    /\ UNCHANGED << stdout, inside >>

\* the rest of an iteration whose list_sessions()? fails: run returns the
\* error, and of what the handler did the server keeps its part
ListFails(srv) ==
    /\ server' = srv
    /\ Over("exit")
    /\ UNCHANGED << stdout, inside >>

\* the loop is at its head in this mode
Looping(mode) == pc = "run" /\ ~state[1].exit /\ state[1].mode = mode

\* one iteration of the loop, next() returning an event of from: the draw
\* phase, in which the dialog of the mode may panic, then the event
Received(from) ==
    IF RenderPanics(state[1], notification)
    THEN Over("panic") /\ UNCHANGED << inside, stdout, server >>
    ELSE \/ \E step \in Steps(from) : Iteration(step.h, step.queued)
         \/ \E srv \in {step.h.server : step \in {t \in Steps(from) : ~t.h.panicked}} :
                 ListFails(srv)

(***************************************************************************)
(* main                                                                    *)
(***************************************************************************)
\* the line printed for one preset
Line(p) == << "Session: ", p.name, ", ", Len(p.windows), " windows, cwd: ", p.cwd >>

\* --list-presets, lines 87-95
ListPresets ==
    /\ pc = "parsed"
    /\ stdout' = [i \in 1..Len(values(presets[1].val)) |-> Line(values(presets[1].val)[i])]
    /\ pc' = "listed"
    /\ UNCHANGED << inside, server, state, sessions_menu, presets_menu, spawned, channel >>

\* no option: list_sessions, App::new and the head of App::run
NewApp ==
    /\ pc = "parsed"
    /\ \E listed \in BOOLEAN :
        IF listed
        THEN LET sessions == list_sessions(server)
                 active_index == position_active(sessions)
                 map == presets[1].val
             IN  /\ state' = Some([AppState(sessions, map) EXCEPT
                                     !.selected_session = active_index,
                                     !.selected_preset =
                                          IF DOMAIN map = {} THEN None ELSE Some(0)])
                 /\ sessions_menu' = [list_state |-> active_index]
                 /\ presets_menu' = [list_state |-> active_index]
                 /\ pc' = "run"
        ELSE /\ pc' = "exit"
             /\ UNCHANGED << state, sessions_menu, presets_menu >>
    /\ UNCHANGED << inside, stdout, server, spawned, channel >>

(***************************************************************************)
(* One iteration of the loop of App::run, by the mode it finds             *)
(***************************************************************************)
SessionsMenu_handle_event ==
    /\ Looping("Sessions")
    /\ Received(Incoming)

PresetsMenu_handle_event ==
    /\ Looping("Presets")
    /\ Received(Incoming)

CreateMenu_handle_event ==
    /\ Looping("Create")
    /\ Received(Incoming)

RenameMenu_handle_event ==
    /\ Looping("Rename")
    /\ Received(Incoming)

DeleteMenu_handle_event ==
    /\ Looping("Delete")
    /\ Received(Incoming)

\* while !self.state.exit
LoopExit ==
    /\ pc = "run"
    /\ state[1].exit
    /\ Over("returned")
    /\ UNCHANGED << inside, stdout, server >>

\* a task of send_timed_notification has slept its three seconds
TimerFires ==
    /\ pc = "run"
    /\ timers > 0
    /\ timers' = timers - 1
    /\ events' = Append(events, ClearNotification)
    /\ UNCHANGED << inside, pc, stdout, server, state, sessions_menu, presets_menu, spawned,
                    notification >>

\* documents without any session, of two sessions in either order, and with
\* a session in error
AppDocs ==
    { << >>,
      << SessionNode(Some("foo"), None, None),
         SessionNode(Some("bar"), Some("/home"), Some(<< WindowNode(Some("x"), None, None) >>)) >>,
      << SessionNode(Some("bar"), Some("/home"), Some(<< WindowNode(Some("x"), None, None) >>)),
         SessionNode(Some("foo"), None, None) >>,
      << SessionNode(Some("foo"), None, None), SessionNode(None, None, None) >> }

\* no document of AppDocs declares a size, so that both builds parse and
\* verify them alike: the release build is followed
AppInit ==
    /\ overflow_checks = FALSE
    /\ doc \in AppDocs
    /\ pc = "parse"
    /\ server \in WellFormedServers
    /\ presets = None
    /\ preset = None
    /\ window_i = 0
    /\ stack = << >>
    /\ calls = << >>
    /\ result = None
    /\ reparsed = None
    /\ outstanding = 0
    /\ stdout = << >>
    /\ state = None
    /\ sessions_menu = None
    /\ presets_menu = None
    /\ spawned = None
    /\ notification = NoNotification
    /\ events = << >>
    /\ timers = 0

AppNext ==
    \/ ParseConfig
    \/ ListPresets
    \/ NewApp
    \/ SessionsMenu_handle_event
    \/ PresetsMenu_handle_event
    \/ CreateMenu_handle_event
    \/ RenameMenu_handle_event
    \/ DeleteMenu_handle_event
    \/ LoopExit
    \/ TimerFires

AppSpec == AppInit /\ [][AppNext]_vars

\* next() returns the oldest notification event of the channel
NextQueued ==
    /\ pc = "run"
    /\ ~state[1].exit
    /\ events # << >>
    /\ Received(Queued)

\* the draw phase of an iteration panics, before any event is waited for
DrawPanics ==
    /\ pc = "run"
    /\ ~state[1].exit
    /\ Received({})

\* the application with its scheduling: a task of send_timed_notification
\* that sleeps wakes up after its three seconds; the loop, which takes the
\* events of the channel in their order, comes to every notification event
\* that waits in it; it draws without waiting for an event, and it ends
\* once the exit flag is set
AppLiveSpec ==
    /\ AppInit /\ [][AppNext]_vars
    /\ WF_vars(TimerFires) /\ WF_vars(NextQueued)
    /\ WF_vars(DrawPanics) /\ WF_vars(LoopExit)

(***************************************************************************)
(* Vocabulary of the properties                                            *)
(***************************************************************************)
Parsed == presets # None /\ IsOk(presets[1])
PresetMap == presets[1].val
SpawnOk == pc = "done" /\ result = Some(Ok(<< >>))

Max(a, b) == IF a >= b THEN a ELSE b

RECURSIVE SumSeq(_)
\* the sum of a sequence of integers, with no width
SumSeq(xs) == IF xs = << >> THEN 0 ELSE xs[1] + SumSeq(Tail(xs))

\* n / d rounded to the nearest integer, halves away from zero (n >= 0, d > 0)
RoundHalfAway(n, d) == (2 * n + d) \div (2 * d)

IsPrefix(p, q) == Len(p) <= Len(q) /\ SubSeq(q, 1, Len(p)) = p
Parent(path) == SubSeq(path, 1, Len(path) - 1)
Last(path) == path[Len(path)]

RECURSIVE NodesOf(_, _)
\* every node of a layout with its path
NodesOf(node, path) ==
    {<< path, node >>} \cup
    (IF node.kind = "Split"
     THEN UNION {NodesOf(node.children[j], Append(path, j - 1)) :
                    j \in 1..Len(node.children)}
     ELSE {})

\* every node of the preset being spawned, with its path
SpawnNodes ==
    UNION {NodesOf(preset[1].windows[w].layout, << w - 1 >>) :
              w \in 1..Len(preset[1].windows)}
NodeAt(path) == (CHOOSE pn \in SpawnNodes : pn[1] = path)[2]
Sizes(node) == [j \in 1..Len(node.children) |-> node.children[j].size]

IsSplitCall(c) == c.op = "split-window"
\* the split-window calls of the node at path, in the order they were made
SplitCallsOf(path) == SelectSeq(calls, LAMBDA c : IsSplitCall(c) /\ c.path = path)
\* what remained of the node's total before the call carved its child
RemainingBefore(c, total) == total - SumSeq(SubSeq(Sizes(NodeAt(c.path)), 1, c.i[1]))

\* the root node of every window body of the document that holds exactly one
\* node, with the layout parsed from it; sessions of a name that comes again
\* later in the document are replaced in the map and left out
ParsedRoots ==
    {<< doc[s].children[1][w].children[1][1],
        PresetMap[doc[s].props.name[1]].windows[w].layout >> :
        << s, w >> \in
            {sw \in (1..Len(doc)) \X (1..MaxWindows + 1) :
                /\ IsSome(doc[sw[1]].children)
                /\ sw[2] <= Len(doc[sw[1]].children[1])
                /\ \A t \in sw[1] + 1..Len(doc) : doc[t].props.name # doc[sw[1]].props.name
                /\ IsSome(doc[sw[1]].children[1][sw[2]].children)
                /\ Len(doc[sw[1]].children[1][sw[2]].children[1]) = 1}}

(***************************************************************************)
(* C1.  For every Preset returned by parse_config and every Window in it,  *)
(* the root LayoutNode of the window's layout has size exactly 100,        *)
(* whatever size the root node declares, and whether it is a pane, a       *)
(* split or the default pane of an empty or missing body.                  *)
(***************************************************************************)
C1_RootSize100 ==
    Parsed =>
        \A name \in DOMAIN PresetMap :
            \A w \in 1..Len(PresetMap[name].windows) :
                PresetMap[name].windows[w].layout.size = 100

\* a parsed document whose root split declares a size other than 100, next to
\* a window without body
C1_Witness ==
    /\ Parsed
    /\ \E r \in ParsedRoots :
        /\ r[1].name = "split"
        /\ IsSome(r[1].props.size)
        /\ r[1].props.size[1] # 100
    /\ \E s \in 1..Len(doc) :
        /\ IsSome(doc[s].children)
        /\ \E w \in 1..Len(doc[s].children[1]) : doc[s].children[1][w].children = None

(***************************************************************************)
(* C2.  For every split node with explicit child sizes summing to E and    *)
(* k >= 1 children without a size, the parser gives each of those k        *)
(* children floor(max(0, 100 - E) / k), and every child that declares a    *)
(* size keeps its declared value, for every combination of explicit sizes. *)
(***************************************************************************)
RECURSIVE C2_SharesOf(_, _)
C2_SharesOf(kdl, lay) ==
    kdl.name = "split" =>
        LET kids == kdl.children[1]
            explicit == {j \in 1..Len(kids) : IsSome(kids[j].props.size)}
            E == SumSeq([j \in 1..Len(kids) |-> UnwrapOr(kids[j].props.size, 0)])
            k == Len(kids) - Cardinality(explicit)
        IN  \A j \in 1..Len(kids) :
                /\ IF j \in explicit
                   THEN lay.children[j].size = kids[j].props.size[1]
                   ELSE lay.children[j].size = Max(0, 100 - E) \div k
                /\ C2_SharesOf(kids[j], lay.children[j])

C2_EqualShare == Parsed => \A r \in ParsedRoots : C2_SharesOf(r[1], r[2])

(***************************************************************************)
(* C3.  spawn_preset materializes every Preset the parser can produce      *)
(* without rejecting it for its sizes: it goes on to create the session.   *)
(* Stated for the documents that leave the size of every child of every    *)
(* split to the parser, where truncation alone decides the total.          *)
(***************************************************************************)
RECURSIVE C3_SizesLeftToParser(_)
C3_SizesLeftToParser(nodes) ==
    \A j \in 1..Len(nodes) :
        IsSome(nodes[j].children) =>
            /\ \A c \in 1..Len(nodes[j].children[1]) :
                    nodes[j].children[1][c].props.size = None
            /\ C3_SizesLeftToParser(nodes[j].children[1])

C3_NoRejection ==
    (Parsed /\ pc = "done" /\ C3_SizesLeftToParser(doc)) => calls # << >>

(***************************************************************************)
(* C4.  Materializing a Split node with n >= 1 children issues exactly     *)
(* n - 1 split-window calls for that node itself, one per non-last child   *)
(* in declared order, and none for the last child; for the weights         *)
(* 20, 30, 50 that is exactly two calls.                                   *)
(***************************************************************************)
C4_SplitCount ==
    SpawnOk =>
        \A pn \in SpawnNodes :
            pn[2].kind = "Split" =>
                LET made == SplitCallsOf(pn[1])
                IN  [j \in 1..Len(made) |-> made[j].i[1]] =
                    [j \in 1..Len(pn[2].children) - 1 |-> j - 1]

C4_Witness ==
    /\ SpawnOk
    /\ \E pn \in SpawnNodes :
        /\ pn[2].kind = "Split"
        /\ Sizes(pn[2]) = << 20, 30, 50 >>
        /\ Len(SplitCallsOf(pn[1])) = 2

(***************************************************************************)
(* C5.  For the i-th non-last child of a Split node, the percentage passed *)
(* to split-window equals 100 * (remaining - s_i) / remaining rounded      *)
(* half away from zero, remaining being the node's total minus the sizes   *)
(* of the children already carved.  Stated for the nodes whose children    *)
(* total exactly 100.                                                      *)
(***************************************************************************)
C5_RoundedPercentage ==
    preset # None =>
        \A n \in 1..Len(calls) :
            LET c == calls[n]
            IN  (IsSplitCall(c) /\ SumSeq(Sizes(NodeAt(c.path))) = 100) =>
                    LET remaining == RemainingBefore(c, 100)
                        s_i == NodeAt(c.path).children[c.i[1] + 1].size
                    IN  remaining > 0 =>
                            c.pct[1] = RoundHalfAway(100 * (remaining - s_i), remaining)

(***************************************************************************)
(* C6.  At the start of materializing each Split node, remaining is the    *)
(* actual sum S of the sizes of the node's children, so that the first     *)
(* split percentage is round(100 * (S - s_1) / S).                         *)
(***************************************************************************)
C6_RemainingIsSum ==
    preset # None =>
        \A n \in 1..Len(calls) :
            LET c == calls[n]
            IN  (IsSplitCall(c) /\ c.i[1] = 0) =>
                    LET S == SumSeq(Sizes(NodeAt(c.path)))
                        s_1 == NodeAt(c.path).children[1].size
                    IN  (S > 0 /\ s_1 <= S) =>
                            c.pct[1] = RoundHalfAway(100 * (S - s_1), S)

(***************************************************************************)
(* C7.  Every percentage that spawn_preset passes to split-window lies in  *)
(* 0..100, for every preset that passes validation.                        *)
(***************************************************************************)
C7_PercentageRange ==
    \A n \in 1..Len(calls) :
        IsSplitCall(calls[n]) => calls[n].pct[1] \in 0..100

(***************************************************************************)
(* C8.  As claimed: for each non-last child i of a Split node, every       *)
(* backend call that materializes child i's own layout is issued before    *)
(* the split-window call that carves the next pane out of the target.      *)
(***************************************************************************)
C8_ChildBeforeSplit ==
    \A a, b \in 1..Len(calls) :
        (IsSplitCall(calls[a]) /\
         IsPrefix(Append(calls[a].path, calls[a].i[1]), calls[b].path))
            => b < a

(***************************************************************************)
(* C8, amended.  For each non-last child i of a Split node, the            *)
(* split-window call that carves the next pane out of the current target   *)
(* is issued before every backend call that materializes child i's own     *)
(* layout into that target (split first, then child).                      *)
(***************************************************************************)
C8_SplitBeforeChild ==
    \A a, b \in 1..Len(calls) :
        (IsSplitCall(calls[a]) /\
         IsPrefix(Append(calls[a].path, calls[a].i[1]), calls[b].path))
            => a < b

\* a spawn that ended well, with a child that is not the last and received keys
C8_Witness ==
    /\ SpawnOk
    /\ \E a, b \in 1..Len(calls) :
        /\ IsSplitCall(calls[a])
        /\ calls[b].op = "send-keys"
        /\ calls[b].path = Append(calls[a].path, calls[a].i[1])

(***************************************************************************)
(* C9.  Within one Split node, the first split-window call targets the     *)
(* pane handed into the node, every later one targets the address          *)
(* returned by the node's previous split-window call, all of them use the  *)
(* node's direction, and the last child is materialized into the pane      *)
(* returned by the node's final split-window call (the handed-in pane      *)
(* when n = 1).                                                            *)
(***************************************************************************)
\* the address returned by the split-window call of iteration i of the node
C9_Returned(path, i) ==
    LET c == CHOOSE c \in {calls[n] : n \in 1..Len(calls)} :
                IsSplitCall(c) /\ c.path = path /\ c.i = Some(i) /\ c.out # None
        printed == c.out[1]
    IN  Target(printed.session, printed.window, printed.index[1])

RECURSIVE C9_HandedIn(_)
\* the pane the claim sends the node at path to
C9_HandedIn(path) ==
    IF Len(path) = 1
    THEN Target(preset[1].name, preset[1].windows[path[1] + 1].name, 0)
    ELSE IF Last(path) = 0 THEN C9_HandedIn(Parent(path))
    ELSE C9_Returned(Parent(path), Last(path) - 1)

C9_TargetChain ==
    \A n \in 1..Len(calls) :
        LET c == calls[n]
        IN  /\ IsSplitCall(c) =>
                /\ c.target = C9_HandedIn(Append(c.path, c.i[1]))
                /\ c.dir = Some(IF NodeAt(c.path).direction = "Horizontal"
                                THEN "-h" ELSE "-v")
            /\ c.op = "send-keys" => c.target = C9_HandedIn(c.path)

\* a node of three children, split twice, whose last child received keys, and
\* a nested split of another direction
C9_Witness ==
    /\ SpawnOk
    /\ \E pn \in SpawnNodes :
        /\ pn[2].kind = "Split"
        /\ Len(pn[2].children) = 3
        /\ Len(SplitCallsOf(pn[1])) = 2
        /\ \E n \in 1..Len(calls) :
            calls[n].op = "send-keys" /\ calls[n].path = Append(pn[1], 2)

(***************************************************************************)
(* C10.  If a backend call made by spawn_preset fails, spawn_preset        *)
(* returns that call's error at once and makes no further backend call:    *)
(* a failed call is the last call, and the spawn is over with its error.   *)
(***************************************************************************)
C10_AbortOnFailure ==
    \A n \in 1..Len(calls) :
        ~calls[n].ok =>
            /\ n = Len(calls)
            /\ pc = "done"
            /\ result = Some(Err(<< "stderr", calls[n].op >>))

\* the second split-window of a node of three children failed: one split took
\* effect and nothing follows the failure
C10_Witness ==
    /\ pc = "done"
    /\ \E pn \in SpawnNodes :
        /\ pn[2].kind = "Split"
        /\ Len(pn[2].children) = 3
        /\ Len(SplitCallsOf(pn[1])) = 2
        /\ SplitCallsOf(pn[1])[1].ok
        /\ ~SplitCallsOf(pn[1])[2].ok
        /\ calls[Len(calls)] = SplitCallsOf(pn[1])[2]
        /\ Cardinality({n \in 1..Len(calls) : IsSplitCall(calls[n]) /\ calls[n].ok}) = 1

(***************************************************************************)
(* C11.  spawn_preset issues new-session for the preset's name exactly     *)
(* once and before any other call; window 0 gets one rename-window on      *)
(* window index 0 and no new-window, every window i >= 1 exactly one       *)
(* new-window; that call precedes every split-window and send-keys of its  *)
(* window, and all calls of window i precede all calls of window i + 1.    *)
(***************************************************************************)
IsWindowCall(c) == c.op \in {"rename-window", "new-window"}
\* the positions in the log of the calls that set up window w (0-based)
C11_SetupOf(w) == {n \in 1..Len(calls) : IsWindowCall(calls[n]) /\ calls[n].path = << w >>}

C11_WindowOrder ==
    calls # << >> =>
        /\ calls[1].op = "new-session"
        /\ calls[1].text = Some(preset[1].name)
        /\ \A n \in 2..Len(calls) : calls[n].op # "new-session" /\ calls[n].path # << >>
        /\ \A w \in 0..Len(preset[1].windows) - 1 :
            /\ Cardinality(C11_SetupOf(w)) <= 1
            /\ (SpawnOk \/ w < window_i) => Cardinality(C11_SetupOf(w)) = 1
            /\ \A n \in C11_SetupOf(w) :
                IF w = 0
                THEN calls[n].op = "rename-window" /\
                     calls[n].target = << preset[1].name, "0" >>
                ELSE calls[n].op = "new-window" /\ calls[n].target = << preset[1].name >>
        /\ \A b \in 2..Len(calls) :
            /\ ~IsWindowCall(calls[b]) =>
                    \E a \in C11_SetupOf(calls[b].path[1]) : a < b
            /\ \A a \in 2..b : calls[a].path[1] <= calls[b].path[1]

\* a spawn of two windows that ended well, both of which were split and
\* received keys
C11_Witness ==
    /\ SpawnOk
    /\ Len(preset[1].windows) = 2
    /\ \A w \in 0..1 :
        /\ \E n \in 1..Len(calls) : IsSplitCall(calls[n]) /\ calls[n].path[1] = w
        /\ \E n \in 1..Len(calls) : calls[n].op = "send-keys" /\ calls[n].path[1] = w

(***************************************************************************)
(* C12.  As claimed: materializing a Pane leaf always issues a send-keys   *)
(* carrying cd <cwd> followed by Enter, then, if and only if the pane has  *)
(* a command, exactly one further send-keys carrying that command          *)
(* followed by Enter, to the same target; no other call is made for the    *)
(* leaf.                                                                   *)
(***************************************************************************)
\* the calls made for the node at path itself, in the order they were made
CallsOf(path) == SelectSeq(calls, LAMBDA c : c.path = path /\ ~IsWindowCall(c))
C12_Panes == {pn \in SpawnNodes : pn[2].kind = "Pane"}
C12_CommandKeys(node) ==
    IF IsSome(node.command)
    THEN << Some(<< << node.command[1] >>, "Enter" >>) >>
    ELSE << >>

C12_AlwaysCd ==
    SpawnOk =>
        \A pn \in C12_Panes :
            LET made == CallsOf(pn[1])
            IN  /\ Len(made) = 1 + Len(C12_CommandKeys(pn[2]))
                /\ \A n \in 1..Len(made) :
                    made[n].op = "send-keys" /\ made[n].target = made[1].target
                /\ made[1].text[1][2] = "Enter"
                /\ made[1].text[1][1][1] = "cd "
                /\ pn[2].cwd = Some(made[1].text[1][1][2])
                /\ SubSeq([n \in 1..Len(made) |-> made[n].text], 2, Len(made)) =
                        C12_CommandKeys(pn[2])

(***************************************************************************)
(* C12, amended.  Materializing a Pane leaf issues, if and only if the     *)
(* pane has a cwd, one send-keys carrying cd <cwd> followed by Enter,      *)
(* then, if and only if the pane has a command, one send-keys carrying     *)
(* that command followed by Enter, in that order and to the pane handed    *)
(* in; no other call is made for the leaf.  While the spawn runs the       *)
(* calls made so far are the first of these.                               *)
(***************************************************************************)
C12_Keys(node) ==
    (IF IsSome(node.cwd) THEN << Some(<< << "cd ", node.cwd[1] >>, "Enter" >>) >>
     ELSE << >>) \o
    C12_CommandKeys(node)

C12_CdIfCwd ==
    preset # None =>
        \A pn \in C12_Panes :
            LET made == CallsOf(pn[1])
                texts == [n \in 1..Len(made) |-> made[n].text]
            IN  /\ \A n \in 1..Len(made) :
                    made[n].op = "send-keys" /\ made[n].target = C9_HandedIn(pn[1])
                /\ IsPrefix(texts, C12_Keys(pn[2]))
                /\ SpawnOk => texts = C12_Keys(pn[2])

\* a spawn that ended well with a pane that has a cwd and a command and
\* received both, and a pane with a cwd and no command
C12_Witness ==
    /\ SpawnOk
    /\ \E pn \in C12_Panes :
        /\ IsSome(pn[2].cwd) /\ IsSome(pn[2].command)
        /\ Len(CallsOf(pn[1])) = 2
    /\ \E pn \in C12_Panes :
        /\ IsSome(pn[2].cwd) /\ pn[2].command = None
        /\ Len(CallsOf(pn[1])) = 1

(***************************************************************************)
(* C13.  For every non-last child i of a Split node with                   *)
(* 0 < s_i <= remaining, remaining being what remaining_pct holds when the *)
(* child is carved, the share of the pre-split area left to the current    *)
(* target, 100 - p_i, differs from 100 * s_i / remaining by at most 0.5:   *)
(* 2 * |remaining * (100 - p_i) - 100 * s_i| <= remaining.                 *)
(***************************************************************************)
Abs(n) == IF n < 0 THEN -n ELSE n

C13_ShareKept ==
    preset # None =>
        \A n \in 1..Len(calls) :
            LET c == calls[n]
            IN  IsSplitCall(c) =>
                    LET remaining == RemainingBefore(c, 100)
                        s_i == NodeAt(c.path).children[c.i[1] + 1].size
                    IN  (0 < s_i /\ s_i <= remaining) =>
                            2 * Abs(remaining * (100 - c.pct[1]) - 100 * s_i) <= remaining

\* a split whose exact percentage lies halfway between two integers (19 of
\* the remaining 40), and one whose percentage is not an integer (30 of 81)
C13_Witness ==
    /\ preset # None
    /\ \E n \in 1..Len(calls) :
        /\ IsSplitCall(calls[n])
        /\ RemainingBefore(calls[n], 100) = 40
        /\ NodeAt(calls[n].path).children[calls[n].i[1] + 1].size = 19
        /\ calls[n].pct = Some(52)
    /\ \E pn \in SpawnNodes : pn[2].kind = "Split" /\ Sizes(pn[2]) = << 60, 19, 21 >>

(***************************************************************************)
(* C14.  In a split whose explicit child sizes, each a percentage from 0   *)
(* on, sum to E <= 100 with k >= 1 children without a size, the resolved   *)
(* sizes of all children total E + k * floor((100 - E) / k): exactly 100   *)
(* when k divides 100 - E, below 100 and never above when it does not.     *)
(***************************************************************************)
RECURSIVE C14_TotalOf(_, _)
C14_TotalOf(kdl, lay) ==
    kdl.name = "split" =>
        LET kids == kdl.children[1]
            explicit == {j \in 1..Len(kids) : IsSome(kids[j].props.size)}
            E == SumSeq([j \in 1..Len(kids) |-> UnwrapOr(kids[j].props.size, 0)])
            k == Len(kids) - Cardinality(explicit)
            total == SumSeq(Sizes(lay))
        IN  /\ ((\A j \in explicit : kids[j].props.size[1] >= 0) /\ E <= 100 /\ k >= 1) =>
                /\ total = E + k * ((100 - E) \div k)
                /\ total <= 100
                /\ total = 100 <=> (100 - E) % k = 0
            /\ \A j \in 1..Len(kids) : C14_TotalOf(kids[j], lay.children[j])

C14_ShareTotal == Parsed => \A r \in ParsedRoots : C14_TotalOf(r[1], r[2])

\* 33, unsized, 33 resolved to 33, 34, 33, and three unsized children
\* resolved to 33 each
C14_Witness ==
    /\ Parsed
    /\ \E r \in ParsedRoots :
        /\ r[1].name = "split"
        /\ Len(r[1].children[1]) = 3
        /\ [j \in 1..3 |-> r[1].children[1][j].props.size] = << Some(33), None, Some(33) >>
        /\ Sizes(r[2]) = << 33, 34, 33 >>
    /\ \E r \in ParsedRoots :
        /\ r[1].name = "split"
        /\ Len(r[1].children[1]) = 3
        /\ [j \in 1..3 |-> r[1].children[1][j].props.size] = << None, None, None >>
        /\ Sizes(r[2]) = << 33, 33, 33 >>

(***************************************************************************)
(* C15.  Every LayoutNode in every parsed Preset, at any depth, has a size *)
(* in 0..100, whatever integer the configuration gives as size: above 100, *)
(* above 255 or negative.                                                  *)
(***************************************************************************)
\* every node of every window of every parsed preset
ParsedNodes ==
    UNION {NodesOf(PresetMap[name].windows[w].layout, << w - 1 >>) :
              << name, w >> \in
                  {nw \in (DOMAIN PresetMap) \X (1..MaxWindows + 1) :
                      nw[2] <= Len(PresetMap[nw[1]].windows)}}

C15_SizeRange == Parsed => \A pn \in ParsedNodes : pn[2].size \in 0..100

(***************************************************************************)
(* C16.  A session node with no window children, be it without a child     *)
(* block or with an empty one, parses to a Preset with exactly one Window, *)
(* named "main", whose cwd is the session's cwd and whose layout is a      *)
(* single Pane with size 100, no command and the session's cwd.            *)
(***************************************************************************)
\* the session nodes of the document that end up in the map: those whose name
\* does not come again later
KeptSessions ==
    {s \in 1..Len(doc) : \A t \in s + 1..Len(doc) : doc[t].props.name # doc[s].props.name}

C16_DefaultWindow ==
    Parsed =>
        \A s \in KeptSessions :
            (doc[s].children = None \/ doc[s].children = Some(<< >>)) =>
                LET p == PresetMap[doc[s].props.name[1]]
                IN  /\ IsSome(doc[s].props.cwd) => p.cwd = doc[s].props.cwd[1]
                    /\ Len(p.windows) = 1
                    /\ p.windows[1].name = "main"
                    /\ p.windows[1].cwd = p.cwd
                    /\ p.windows[1].layout = Pane(Some(p.cwd), None, 100)

\* a parsed document with a session without child block and a session with
\* an empty one, each with a cwd of its own
C16_Witness ==
    /\ Parsed
    /\ \E s \in KeptSessions :
        doc[s].children = None /\ doc[s].props.cwd = Some("/home")
    /\ \E s \in KeptSessions :
        doc[s].children = Some(<< >>) /\ doc[s].props.cwd = Some("/tmp")

(***************************************************************************)
(* C17.  A window node without a name gets the decimal string of its       *)
(* zero-based position among the session's children, windows with a name   *)
(* counted; a window without cwd gets the session's cwd; a session without *)
(* cwd gets "~"; a pane without cwd, at any depth, gets its window's cwd.  *)
(***************************************************************************)
RECURSIVE C17_PaneCwd(_, _, _)
C17_PaneCwd(kdl, lay, window_cwd) ==
    IF kdl.name = "pane"
    THEN lay.cwd = Some(UnwrapOr(kdl.props.cwd, window_cwd))
    ELSE \A j \in 1..Len(kdl.children[1]) :
            C17_PaneCwd(kdl.children[1][j], lay.children[j], window_cwd)

C17_Decimal(n) == << "0", "1", "2", "3", "4" >>[n + 1]

C17_Defaults ==
    Parsed =>
        \A s \in KeptSessions :
            LET p == PresetMap[doc[s].props.name[1]]
                nodes == UnwrapOr(doc[s].children, << >>)
            IN  /\ p.cwd = UnwrapOr(doc[s].props.cwd, "~")
                /\ \A w \in 1..Len(nodes) :
                    /\ p.windows[w].name = UnwrapOr(nodes[w].props.name, C17_Decimal(w - 1))
                    /\ p.windows[w].cwd = UnwrapOr(nodes[w].props.cwd, p.cwd)
                    /\ UnwrapOr(nodes[w].children, << >>) # << >> =>
                            C17_PaneCwd(nodes[w].children[1][1], p.windows[w].layout,
                                        p.windows[w].cwd)

\* a parsed session without cwd whose second and third windows have no name,
\* the second with a cwd of its own and a pane without cwd two splits down,
\* the third without cwd
C17_Witness ==
    /\ Parsed
    /\ \E s \in KeptSessions :
        LET p == PresetMap[doc[s].props.name[1]]
        IN  /\ doc[s].props.cwd = None
            /\ Len(p.windows) = 3
            /\ p.windows[1].name = "edit"
            /\ p.windows[2].name = "1" /\ p.windows[2].cwd = "/w"
            /\ p.windows[2].layout.children[1].children[1].cwd = Some("/w")
            /\ p.windows[3].name = "2" /\ p.windows[3].cwd = "~"
            /\ p.windows[1].layout.children[2].children[1].cwd = Some("/own")
            /\ p.windows[1].layout.children[2].children[2].cwd = Some("~")

(***************************************************************************)
(* C18.  A window body with more than one root node makes parse_config     *)
(* return an error; a window with an empty body or no body parses to a     *)
(* single Pane of size 100, without command, whose cwd is the window's     *)
(* cwd; a body with exactly one pane or split parses to that node.         *)
(***************************************************************************)
\* the body of a window node: its root nodes, none when there is no block
BodyOf(window) == UnwrapOr(window.children, << >>)

RECURSIVE C18_SameNode(_, _)
\* the layout is the node: its variant, command, direction and children
C18_SameNode(kdl, lay) ==
    IF kdl.name = "pane"
    THEN lay.kind = "Pane" /\ lay.command = kdl.props.command
    ELSE /\ lay.kind = "Split"
         /\ lay.direction = IF kdl.props.direction \in {Some("h"), Some("horizontal")}
                            THEN "Horizontal" ELSE "Vertical"
         /\ Len(lay.children) = Len(kdl.children[1])
         /\ \A j \in 1..Len(lay.children) : C18_SameNode(kdl.children[1][j], lay.children[j])

C18_OneRoot ==
    presets # None =>
        /\ (\E s \in 1..Len(doc) : \E w \in 1..Len(UnwrapOr(doc[s].children, << >>)) :
                Len(BodyOf(doc[s].children[1][w])) > 1)
            => presets[1].tag = "Err"
        /\ Parsed =>
            \A s \in KeptSessions :
                LET p == PresetMap[doc[s].props.name[1]]
                    nodes == UnwrapOr(doc[s].children, << >>)
                IN  \A w \in 1..Len(nodes) :
                        IF BodyOf(nodes[w]) = << >>
                        THEN p.windows[w].layout = Pane(Some(p.windows[w].cwd), None, 100)
                        ELSE C18_SameNode(BodyOf(nodes[w])[1], p.windows[w].layout)

\* a parsed session of two windows, one with a body of one split, the other
\* without body
C18_Witness ==
    /\ Parsed
    /\ \E s \in KeptSessions :
        LET nodes == UnwrapOr(doc[s].children, << >>)
        IN  /\ Len(nodes) = 2
            /\ nodes[1].children = None
            /\ nodes[1].props.cwd = Some("/p")
            /\ Len(BodyOf(nodes[2])) = 1
            /\ BodyOf(nodes[2])[1].name = "split"

(***************************************************************************)
(* C19.  As claimed: a node of an unrecognized name inside a session body  *)
(* (anything but window), inside a window body or inside a split body      *)
(* (anything but pane or split) makes parse_config return an error whose   *)
(* message contains the name of that node.                                 *)
(***************************************************************************)
\* the names a body allows: ctx is "session" for the body of a session,
\* "body" for the body of a window or of a split
Recognized(ctx) == IF ctx = "session" THEN {"window"} ELSE {"pane", "split"}

RECURSIVE UnknownIn(_, _)
\* the names of the unrecognized nodes below, in document order
UnknownIn(nodes, ctx) ==
    IF nodes = << >> THEN << >>
    ELSE (IF nodes[1].name \notin Recognized(ctx) THEN << nodes[1].name >>
          ELSE IF nodes[1].name = "pane" THEN << >>
          ELSE UnknownIn(UnwrapOr(nodes[1].children, << >>), "body"))
         \o UnknownIn(Tail(nodes), ctx)

RECURSIVE RepairIn(_, _)
\* the same nodes, with a window or a pane in place of every unrecognized one
RepairIn(nodes, ctx) ==
    [j \in 1..Len(nodes) |->
        IF nodes[j].name \notin Recognized(ctx)
        THEN IF ctx = "session" THEN WindowNode(None, None, None)
             ELSE PaneNode(None, None, None)
        ELSE IF nodes[j].children = None THEN nodes[j]
        ELSE [nodes[j] EXCEPT !.children = Some(RepairIn(@[1], "body"))]]

RECURSIVE C19_UnknownFrom(_)
\* the unrecognized nodes of the bodies of the sessions from node s on
C19_UnknownFrom(s) ==
    IF s > Len(doc) THEN << >>
    ELSE (IF doc[s].name = "session"
          THEN UnknownIn(UnwrapOr(doc[s].children, << >>), "session")
          ELSE << >>)
         \o C19_UnknownFrom(s + 1)
C19_Unknown == C19_UnknownFrom(1)
C19_Repaired ==
    [s \in 1..Len(doc) |->
        IF doc[s].name = "session" /\ IsSome(doc[s].children)
        THEN [doc[s] EXCEPT !.children = Some(RepairIn(@[1], "session"))]
        ELSE doc[s]]

C19_EveryName ==
    (presets # None /\ C19_Unknown # << >>) =>
        /\ presets[1].tag = "Err"
        /\ \A j \in 1..Len(C19_Unknown) :
                \E k \in 1..Len(presets[1].msg) : presets[1].msg[k] = C19_Unknown[j]

(***************************************************************************)
(* C19, amended.  Such a node makes parse_config return an error, and the  *)
(* message contains the name of the node when the node is the one thing    *)
(* wrong with the document: with a window or a pane in its place the       *)
(* document parses.  Otherwise the error is that of the first defect the   *)
(* parser meets: a window body of two nodes is rejected for their number,  *)
(* a split of an invalid direction for its direction.                      *)
(***************************************************************************)
C19_NamesNode ==
    (presets # None /\ C19_Unknown # << >>) =>
        /\ presets[1].tag = "Err"
        /\ (Len(C19_Unknown) = 1 /\ IsOk(parse_config(C19_Repaired, overflow_checks))) =>
                \E k \in 1..Len(presets[1].msg) : presets[1].msg[k] = C19_Unknown[1]

\* the second window of a session holds foo {} and nothing else is wrong: the
\* error names foo
C19_Witness ==
    /\ presets # None
    /\ Len(doc) = 1
    /\ Len(UnwrapOr(doc[1].children, << >>)) = 2
    /\ BodyOf(doc[1].children[1][2]) = << KdlNode("foo", NoProps, Some(<< >>)) >>
    /\ C19_Unknown = << "foo" >>
    /\ presets[1] = Err(<< "Unexpected node: ", "foo" >>)

(***************************************************************************)
(* C20.  A split node with zero children, be it without a child block or   *)
(* with an empty one, makes parse_config return an error, at any nesting   *)
(* depth; consequently every Split in a parsed Preset has at least one     *)
(* child.                                                                  *)
(***************************************************************************)
RECURSIVE C20_ChildlessSplitIn(_)
\* whether a split without children is among the nodes or below them
C20_ChildlessSplitIn(nodes) ==
    \E j \in 1..Len(nodes) :
        \/ nodes[j].name = "split" /\ UnwrapOr(nodes[j].children, << >>) = << >>
        \/ C20_ChildlessSplitIn(UnwrapOr(nodes[j].children, << >>))

C20_SplitHasChildren ==
    presets # None =>
        /\ C20_ChildlessSplitIn(doc) => presets[1].tag = "Err"
        /\ Parsed => \A pn \in ParsedNodes :
                        pn[2].kind = "Split" => Len(pn[2].children) >= 1

\* a split without child block three splits down, and nothing else wrong
C20_Witness ==
    /\ presets = Some(Err(<< "Split nodes must contain children" >>))
    /\ \E r \in {BodyOf(doc[1].children[1][1])} :
        /\ Len(r) = 1
        /\ r[1].name = "split" /\ Len(BodyOf(r[1])) = 2
        /\ BodyOf(r[1])[2].name = "split" /\ Len(BodyOf(BodyOf(r[1])[2])) = 1
        /\ BodyOf(BodyOf(r[1])[2])[1] = SplitNode(None, None, None)

(***************************************************************************)
(* C21.  A session node without a name makes parse_config return an error. *)
(* The absence of an optional attribute never causes one: a document whose *)
(* nodes are in their places and whose sessions have names fails only for  *)
(* an attribute that is there, an invalid direction or sizes that          *)
(* overflow.  An absent attribute resolves to its default: session cwd     *)
(* "~", window name its position, window cwd the session's, pane cwd the   *)
(* window's, no command, direction Vertical, size 100 at the root and the  *)
(* equal share below it (where the declared sizes fit a byte).             *)
(***************************************************************************)
RECURSIVE C21_BodyOk(_)
\* a pane, or a split of at least one child, each of them in order
C21_BodyOk(node) ==
    \/ node.name = "pane"
    \/ /\ node.name = "split"
       /\ BodyOf(node) # << >>
       /\ \A j \in 1..Len(BodyOf(node)) : C21_BodyOk(BodyOf(node)[j])

\* every node of the document is in its place and every session has a name
C21_StructureOk ==
    \A s \in 1..Len(doc) :
        /\ doc[s].name = "session"
        /\ IsSome(doc[s].props.name)
        /\ \A w \in 1..Len(BodyOf(doc[s])) :
            LET window == BodyOf(doc[s])[w]
            IN  /\ window.name = "window"
                /\ Len(BodyOf(window)) <= 1
                /\ \A j \in 1..Len(BodyOf(window)) : C21_BodyOk(BodyOf(window)[j])

RECURSIVE C21_NodeDefaults(_, _, _)
C21_NodeDefaults(kdl, lay, window_cwd) ==
    IF kdl.name = "pane"
    THEN /\ kdl.props.cwd = None => lay.cwd = Some(window_cwd)
         /\ kdl.props.command = None => lay.command = None
    ELSE LET kids == kdl.children[1]
             declared == [j \in 1..Len(kids) |-> UnwrapOr(kids[j].props.size, 0)]
             E == SumSeq(declared)
             k == Cardinality({j \in 1..Len(kids) : kids[j].props.size = None})
         IN  /\ kdl.props.direction = None => lay.direction = "Vertical"
             /\ \A j \in 1..Len(kids) :
                 /\ (kids[j].props.size = None /\ E < U8 /\
                     \A c \in 1..Len(kids) : declared[c] >= 0)
                        => lay.children[j].size = Max(0, 100 - E) \div k
                 /\ C21_NodeDefaults(kids[j], lay.children[j], window_cwd)

C21_Permissive ==
    presets # None =>
        /\ (\E s \in 1..Len(doc) : doc[s].name = "session" /\ doc[s].props.name = None)
                => presets[1].tag = "Err"
        /\ (C21_StructureOk /\ ~Parsed) =>
                \/ presets[1].tag = "Panic"
                \/ presets[1].tag = "Err" /\ presets[1].msg[1] = "Invalid direction: "
        /\ Parsed =>
            \A s \in KeptSessions :
                LET p == PresetMap[doc[s].props.name[1]]
                    nodes == BodyOf(doc[s])
                IN  /\ doc[s].props.cwd = None => p.cwd = "~"
                    /\ \A w \in 1..Len(nodes) :
                        /\ nodes[w].props.name = None => p.windows[w].name = C17_Decimal(w - 1)
                        /\ nodes[w].props.cwd = None => p.windows[w].cwd = p.cwd
                        /\ BodyOf(nodes[w]) # << >> =>
                            /\ p.windows[w].layout.size = 100
                            /\ C21_NodeDefaults(BodyOf(nodes[w])[1], p.windows[w].layout,
                                                p.windows[w].cwd)

\* a parsed session without cwd, with a window that has neither name nor cwd
\* over a pane without attributes, and a split without direction over
\* children without size
C21_Witness ==
    /\ Parsed
    /\ C21_StructureOk
    /\ \E s \in KeptSessions :
        /\ doc[s].props.cwd = None
        /\ \E w \in 1..Len(BodyOf(doc[s])) :
            /\ BodyOf(doc[s])[w].props = NoProps
            /\ BodyOf(doc[s])[w].children = Some(<< PaneNode(None, None, None) >>)
        /\ \E w \in 1..Len(BodyOf(doc[s])) :
            /\ Len(BodyOf(BodyOf(doc[s])[w])) = 1
            /\ BodyOf(BodyOf(doc[s])[w])[1].name = "split"
            /\ BodyOf(BodyOf(doc[s])[w])[1].props = NoProps

(***************************************************************************)
(* C22.  A split's direction attribute h or horizontal yields Horizontal,  *)
(* v or vertical yields Vertical, an absent attribute yields Vertical; the *)
(* parsed direction is the one passed to every split-window call of that   *)
(* node, -h for Horizontal and -v for Vertical.                            *)
(***************************************************************************)
RECURSIVE C22_ParsedAs(_, _)
C22_ParsedAs(kdl, lay) ==
    kdl.name = "split" =>
        /\ kdl.props.direction \in {Some("h"), Some("horizontal")}
                => lay.direction = "Horizontal"
        /\ kdl.props.direction \in {Some("v"), Some("vertical"), None}
                => lay.direction = "Vertical"
        /\ \A j \in 1..Len(lay.children) : C22_ParsedAs(kdl.children[1][j], lay.children[j])

RECURSIVE C22_Descend(_, _)
C22_Descend(node, path) ==
    IF path = << >> THEN node
    ELSE C22_Descend(BodyOf(node)[path[1] + 1], Tail(path))
\* the node of the document that the node at path of the spawned preset was
\* parsed from
C22_KdlAt(path) ==
    LET s == CHOOSE s \in KeptSessions : doc[s].props.name = Some(preset[1].name)
    IN  C22_Descend(BodyOf(BodyOf(doc[s])[path[1] + 1])[1], Tail(path))

C22_Direction ==
    Parsed =>
        /\ \A r \in ParsedRoots : C22_ParsedAs(r[1], r[2])
        /\ preset # None =>
            \A n \in 1..Len(calls) :
                IsSplitCall(calls[n]) =>
                    calls[n].dir =
                        Some(IF C22_KdlAt(calls[n].path).props.direction
                                    \in {Some("h"), Some("horizontal")}
                             THEN "-h" ELSE "-v")

\* a spawn that ended well for a split declared horizontal over a split
\* without direction, each of which was split
C22_Witness ==
    /\ Parsed
    /\ SpawnOk
    /\ \E a, b \in 1..Len(calls) :
        /\ IsSplitCall(calls[a]) /\ IsSplitCall(calls[b])
        /\ Len(calls[a].path) = 1 /\ calls[b].path = Append(calls[a].path, 1)
        /\ C22_KdlAt(calls[a].path).props.direction = Some("horizontal")
        /\ C22_KdlAt(calls[b].path).props.direction = None
        /\ calls[a].dir = Some("-h") /\ calls[b].dir = Some("-v")

(***************************************************************************)
(* C23.  When several session nodes of a document carry the same name,     *)
(* parse_config succeeds (every node being valid) and maps the name to the *)
(* Preset built from the last such node in document order; the result      *)
(* holds exactly one entry per distinct session name.                      *)
(***************************************************************************)
C23_LastWins ==
    presets # None =>
        /\ (\A s \in 1..Len(doc) : IsOk(parse_session(doc[s], overflow_checks))) => Parsed
        /\ Parsed =>
            /\ DOMAIN PresetMap = {doc[s].props.name[1] : s \in 1..Len(doc)}
            /\ \A s \in KeptSessions :
                LET p == PresetMap[doc[s].props.name[1]]
                IN  /\ p = parse_session(doc[s], overflow_checks).val
                    /\ p.name = doc[s].props.name[1]
                    /\ p.cwd = UnwrapOr(doc[s].props.cwd, "~")

\* three session nodes under two names: the name that comes twice maps to the
\* preset of the later node
C23_Witness ==
    /\ Parsed
    /\ Len(doc) = 3
    /\ doc[1].props.name = doc[3].props.name
    /\ doc[1].props.cwd # doc[3].props.cwd
    /\ Cardinality(DOMAIN PresetMap) = 2
    /\ PresetMap[doc[3].props.name[1]].cwd = doc[3].props.cwd[1]

(***************************************************************************)
(* C24.  If a session node of the document is in error, or a top-level     *)
(* node is not a session, parse_config returns a single error, that of the *)
(* first such node, and no Preset at all, even for valid sessions that     *)
(* precede the faulty one.                                                 *)
(***************************************************************************)
\* the top-level nodes that parse_session returns an error for
C24_Faulty == {s \in 1..Len(doc) : parse_session(doc[s], overflow_checks).tag = "Err"}

C24_NoPartialResult ==
    (presets # None /\ C24_Faulty # {}) =>
        /\ presets[1].tag = "Err"
        /\ DOMAIN presets[1] = {"tag", "msg"}
        /\ \E s \in C24_Faulty :
            /\ \A t \in C24_Faulty : s <= t
            /\ presets[1] = parse_session(doc[s], overflow_checks)

\* a valid session, then a session with a stray node in its body, then a
\* session without name: the error is that of the second node
C24_Witness ==
    /\ presets # None
    /\ C24_Faulty = {2, 3}
    /\ IsOk(parse_session(doc[1], overflow_checks))
    /\ presets[1] = Err(<< "Unknown session child node: ", "pane" >>)

C27_Malformed(c) ==
    /\ IsSplitCall(c)
    /\ c.ok
    /\ ~c.out[1].colon \/ ~c.out[1].dot \/ c.out[1].index = None

C27_AbortOnShape ==
    \A n \in 1..Len(calls) :
        C27_Malformed(calls[n]) =>
            /\ n = Len(calls)
            /\ pc = "done"
            /\ result # None /\ result[1].tag = "Err"
            /\ result[1].msg = IF calls[n].out[1].colon /\ calls[n].out[1].dot
                               THEN << "Parsing error" >>
                               ELSE << "Unexpected output" >>

\* the second split-window of a node printed an index that is no number: the
\* first split stands, the second was carried out, and nothing follows
C27_Witness ==
    /\ pc = "done"
    /\ Len(calls) >= 4
    /\ C27_Malformed(calls[Len(calls)])
    /\ calls[Len(calls)].out[1].index = None
    /\ calls[Len(calls)].i = Some(1)
    /\ \E n \in 1..Len(calls) - 1 : IsSplitCall(calls[n]) /\ calls[n].path = calls[Len(calls)].path

(***************************************************************************)
(* C30.  During spawn_preset at most one backend invocation is             *)
(* outstanding at any time: a call is started only after the one before it *)
(* has returned, and a call that needs a pane address is not started       *)
(* before the call that produces the address has returned.  A step of the  *)
(* model is one invocation from start to return, so between steps none is  *)
(* outstanding, and the address of every pane other than the first of a    *)
(* window is in the output of an earlier split-window of the log.          *)
(***************************************************************************)
\* call n is addressed to a pane
C30_NeedsPane(n) == IsSplitCall(calls[n]) \/ calls[n].op = "send-keys"

\* an earlier split-window was carried out and printed this address
C30_Produced(target, n) ==
    \E m \in 1..(n - 1) :
        /\ IsSplitCall(calls[m])
        /\ calls[m].ok
        /\ calls[m].out # None
        /\ calls[m].out[1].colon /\ calls[m].out[1].dot
        /\ calls[m].out[1].index # None
        /\ target = Target(calls[m].out[1].session, calls[m].out[1].window,
                           calls[m].out[1].index[1])

C25_Rank == [bar |-> 1, baz |-> 2, foo |-> 3]
\* the name of S that has n names of S before it
C25_NameAt(S, n) ==
    CHOOSE k \in S : Cardinality({o \in S : C25_Rank[o] < C25_Rank[k]}) = n

C25_NameOrder ==
    /\ pc = "listed" =>
        /\ Len(stdout) = Cardinality(DOMAIN PresetMap)
        /\ \A n \in 1..Len(stdout) :
            stdout[n] = Line(PresetMap[C25_NameAt(DOMAIN PresetMap, n - 1)])
    /\ (pc = "run" /\ spawned # None) =>
        /\ spawned[1].index < Cardinality(DOMAIN state[1].presets)
        /\ spawned[1].name = C25_NameAt(DOMAIN state[1].presets, spawned[1].index)

\* the document names foo first and bar second, and the presets menu has
\* spawned foo for the second entry of the list
C25_Witness ==
    /\ pc = "run"
    /\ Len(doc) >= 2
    /\ doc[1].props.name = Some("foo")
    /\ doc[2].props.name = Some("bar")
    /\ spawned # None
    /\ spawned[1].index = 1
    /\ spawned[1].name = "foo"
    /\ IsOk(spawned[1].result)

(***************************************************************************)
(* C28.  After every iteration of the main loop, a preset is running if    *)
(* and only if the session list that the iteration has just read holds a   *)
(* session of its name: a preset whose session was deleted or renamed is   *)
(* not running any more once the next iteration is over.                   *)
(***************************************************************************)
\* one iteration of the loop, whatever the mode: the loop takes an event and
\* goes on; the only other step that leaves the loop running is a timer that
\* fires, which is no step of the loop
C28_Iteration ==
    /\ pc = "run" /\ ~state[1].exit
    /\ pc' = "run"
    /\ timers' >= timers

C28_Listed(s, name) == \E i \in 1..Len(s.sessions) : s.sessions[i].name = name

C28_RunningIffListed ==
    [][C28_Iteration =>
            \A name \in DOMAIN state'[1].presets :
                state'[1].presets[name].running <=> C28_Listed(state'[1], name)]_vars

\* bar runs and foo does not, foo's session having left the list since the
\* second session of the list was selected
C28_Witness ==
    /\ pc = "run"
    /\ DOMAIN state[1].presets = {"bar", "foo"}
    /\ state[1].presets["bar"].running
    /\ ~state[1].presets["foo"].running
    /\ Len(state[1].sessions) = 1
    /\ state[1].selected_session = Some(1)

(***************************************************************************)
(* C29.  parse_config returns every Preset with running = false, and       *)
(* nothing that happens after parsing changes the name, the cwd, the       *)
(* windows or a layout of a Preset: running is the only field that ever    *)
(* changes.                                                                *)
(***************************************************************************)
C29_OnlyRunningChanges ==
    /\ Parsed => \A name \in DOMAIN PresetMap : ~PresetMap[name].running
    /\ state # None =>
        /\ DOMAIN state[1].presets = DOMAIN PresetMap
        /\ \A name \in DOMAIN PresetMap :
            /\ state[1].presets[name].name = PresetMap[name].name
            /\ state[1].presets[name].cwd = PresetMap[name].cwd
            /\ state[1].presets[name].windows = PresetMap[name].windows

\* the presets menu has just spawned bar, which the iteration found running
\* with the window that the document gives it
C29_Witness ==
    /\ pc = "run"
    /\ spawned # None
    /\ spawned[1].name = "bar"
    /\ IsOk(spawned[1].result)
    /\ state[1].presets["bar"].running
    /\ state[1].presets["bar"].windows[1].name = "x"
    /\ \E name \in DOMAIN state[1].presets : ~state[1].presets[name].running

(***************************************************************************)
(* C32.  If the validation of a preset fails (the children of some split   *)
(* do not sum to 100), spawn_preset returns the error before it makes any  *)
(* backend call: no session is created, and no window, split or send-keys  *)
(* call is issued.                                                         *)
(***************************************************************************)
C32_Rejected == preset # None /\ ~IsOk(verify_preset(preset[1], overflow_checks))

C32_NoCallBeforeVerify ==
    C32_Rejected =>
        /\ calls = << >>
        /\ pc = "done"
        /\ result = Some(verify_preset(preset[1], overflow_checks))

\* a split over 20 and 30 was handed to spawn_preset, which returned the
\* error of verify_preset
C32_Witness ==
    /\ C32_Rejected
    /\ result # None /\ result[1].tag = "Err"
    /\ \E pn \in SpawnNodes : pn[2].kind = "Split" /\ Sizes(pn[2]) = << 20, 30 >>

(***************************************************************************)
(* C33.  On a successful spawn_preset, for every window the number of      *)
(* split-window calls is the number of Pane leaves of its layout minus     *)
(* one, and every Pane leaf is materialized exactly once, with one cd      *)
(* send-keys for each leaf, the leaves being visited depth first and from  *)
(* left to right.                                                          *)
(***************************************************************************)
RECURSIVE C33_LeavesFrom(_, _, _)
RECURSIVE C33_Leaves(_, _)
\* the paths of the Pane leaves below node, depth first and left to right
C33_Leaves(node, path) ==
    IF node.kind = "Pane" THEN << path >> ELSE C33_LeavesFrom(node, path, 1)
C33_LeavesFrom(node, path, j) ==
    IF j > Len(node.children) THEN << >>
    ELSE C33_Leaves(node.children[j], Append(path, j - 1)) \o C33_LeavesFrom(node, path, j + 1)

C33_WindowLeaves(w) == C33_Leaves(preset[1].windows[w + 1].layout, << w >>)
\* the calls made for the layout of window w, in the order they were made
C33_WindowCalls(w) == SelectSeq(calls, LAMBDA c : ~IsWindowCall(c) /\ c.path # << >> /\ c.path[1] = w)
C33_IsCd(c) == c.op = "send-keys" /\ c.text[1][1][1] = "cd "
C33_PathsOf(cs) == [n \in 1..Len(cs) |-> cs[n].path]

C33_SplitsAreLeavesLessOne(w) ==
    Len(SelectSeq(C33_WindowCalls(w), IsSplitCall)) = Len(C33_WindowLeaves(w)) - 1

C33_OneCdPerLeaf ==
    SpawnOk =>
        \A w \in 0..Len(preset[1].windows) - 1 :
            /\ C33_SplitsAreLeavesLessOne(w)
            /\ C33_PathsOf(SelectSeq(C33_WindowCalls(w), C33_IsCd)) = C33_WindowLeaves(w)

(***************************************************************************)
(* C33, amended.  On a successful spawn_preset, for every window the       *)
(* number of split-window calls is the number of Pane leaves of its layout *)
(* minus one, and the send-keys calls of the window are those of its       *)
(* leaves, leaf after leaf in depth-first, left-to-right order: for each   *)
(* leaf one cd if it has a cwd, then one command if it has a command, and  *)
(* nothing for a leaf that has neither.                                    *)
(***************************************************************************)
C33_KeysOf(leaf) == Len(C12_Keys(NodeAt(leaf)))
RECURSIVE C33_Repeat(_)
\* the paths of the leaves, each as many times as it is sent keys
C33_Repeat(leaves) ==
    IF leaves = << >> THEN << >>
    ELSE [n \in 1..C33_KeysOf(leaves[1]) |-> leaves[1]] \o C33_Repeat(Tail(leaves))

C33_LeavesOnceInOrder ==
    SpawnOk =>
        \A w \in 0..Len(preset[1].windows) - 1 :
            /\ C33_SplitsAreLeavesLessOne(w)
            /\ C33_PathsOf(SelectSeq(C33_WindowCalls(w), LAMBDA c : c.op = "send-keys")) =
                    C33_Repeat(C33_WindowLeaves(w))
            /\ C33_PathsOf(SelectSeq(C33_WindowCalls(w), C33_IsCd)) =
                    SelectSeq(C33_WindowLeaves(w), LAMBDA leaf : IsSome(NodeAt(leaf).cwd))

\* the preset of test_spawn_preset was spawned: a window of three leaves
\* without a cwd, one of which has a command, and a window with a nested
\* split whose three leaves have a cwd
C33_Witness ==
    /\ SpawnOk
    /\ Len(preset[1].windows) = 2
    /\ Len(C33_WindowLeaves(0)) = 3
    /\ \A n \in 1..3 : NodeAt(C33_WindowLeaves(0)[n]).cwd = None
    /\ Len(SelectSeq(C33_WindowCalls(0), LAMBDA c : c.op = "send-keys")) = 1
    /\ C33_WindowLeaves(1) = << << 1, 0 >>, << 1, 1, 0 >>, << 1, 1, 1 >> >>
    /\ Len(SelectSeq(C33_WindowCalls(1), C33_IsCd)) = 3
    /\ Len(SelectSeq(C33_WindowCalls(1), IsSplitCall)) = 2

(***************************************************************************)
(* C34.  With a backend that addresses the panes of a window by position   *)
(* (a split puts the new pane right after its target and moves every later *)
(* pane up by one, as the session:window.index addresses that split_window *)
(* parses do), every Pane leaf of a window receives its keystrokes in a    *)
(* pane of its own: the address remembered for a later sibling still       *)
(* denotes the pane made for it after an earlier sibling that is a Split   *)
(* has been materialized.                                                  *)
(***************************************************************************)
\* the panes of a window by position, each named by its rank of creation:
\* the window starts with pane 0, and a split that tmux carries out puts
\* the new pane right after its target
RECURSIVE WindowPanes(_, _)
WindowPanes(cs, w) ==
    IF cs = << >> THEN << 0 >>
    ELSE LET before == WindowPanes(SubSeq(cs, 1, Len(cs) - 1), w)
             c == cs[Len(cs)]
         IN  IF IsSplitCall(c) /\ c.ok /\ c.path[1] = w /\ c.target[3] < Len(before)
             THEN SubSeq(before, 1, c.target[3] + 1) \o << Len(before) >>
                      \o SubSeq(before, c.target[3] + 2, Len(before))
             ELSE before

\* call n is a send-keys that tmux carried out
C34_Keys(n) == calls[n].op = "send-keys" /\ calls[n].ok
\* the pane that the address of call n denotes when the call is made
C34_PaneOf(n) ==
    LET panes == WindowPanes(SubSeq(calls, 1, n - 1), calls[n].path[1])
    IN  IF calls[n].target[3] < Len(panes) THEN Some(panes[calls[n].target[3] + 1])
        ELSE None

C34_DistinctPanes ==
    \A m, n \in 1..Len(calls) :
        (/\ C34_Keys(m) /\ C34_Keys(n)
         /\ calls[m].path[1] = calls[n].path[1]
         /\ calls[m].path # calls[n].path)
            => C34_PaneOf(m) # C34_PaneOf(n)

(***************************************************************************)
(* C35.  For any two different windows of one preset, the initial pane     *)
(* targets that spawn_preset computes are different, also when the two     *)
(* windows carry the same declared name: the calls made for the root node  *)
(* of one window never address the pane that the calls for the root node   *)
(* of another window address.                                              *)
(***************************************************************************)
\* call n is made for the root node of a window and addresses a pane, which
\* is the initial pane of that window
C35_Initial(n) == Len(calls[n].path) = 1 /\ Len(calls[n].target) = 3
C35_DistinctInitialPanes ==
    \A m, n \in 1..Len(calls) :
        (C35_Initial(m) /\ C35_Initial(n) /\ calls[m].path # calls[n].path)
            => calls[m].target # calls[n].target

(***************************************************************************)
(* C37.  Whenever state.selected_preset is Some(i), whatever keys the      *)
(* Presets menu has handled, i is less than the number of presets, so that *)
(* Enter always finds the selected preset; this also holds when the map of *)
(* presets is empty.                                                       *)
(***************************************************************************)
C37_SelectedPresetInRange ==
    (state # None /\ state[1].selected_preset # None)
        => state[1].selected_preset[1] < Cardinality(DOMAIN state[1].presets)

(***************************************************************************)
(* C38.  The application is in Rename or Delete mode only while a session  *)
(* is selected: selected_session is Some and indexes a session of the      *)
(* list, so that the dialogs, whose rendering unwraps the selection and    *)
(* indexes the list, never fail to render, whatever keys were handled and  *)
(* whatever the initial list of sessions, one without an active session    *)
(* included.                                                               *)
(***************************************************************************)
C38_DialogHasSelection ==
    (pc = "run" /\ state[1].mode \in {"Rename", "Delete"})
        => /\ state[1].selected_session # None
           /\ state[1].selected_session[1] < Len(state[1].sessions)
           /\ ~RenderPanics(state[1], notification)

(***************************************************************************)
(* C39.  In every mode a Ctrl+C key event sets the exit flag, and once the *)
(* flag is set the loop handles no further event and returns.  The loop    *)
(* returns successfully only after the flag has been set, and only Ctrl+C  *)
(* and the key q of the Sessions and the Presets menu set it.              *)
(***************************************************************************)
C39_IsCtrlC(event) == event.kind = "Key" /\ event.ctrl /\ event.code = "c"
C39_IsQuit(event) ==
    /\ event.kind = "Key" /\ ~event.ctrl /\ event.code = "q"
    /\ state[1].mode \in {"Sessions", "Presets"}
\* the loop is about to draw and to take an event
C39_AtHead == pc = "run" /\ ~state[1].exit /\ ~RenderPanics(state[1], notification)
\* the loop handles an event, in whatever mode
C39_Handles ==
    \/ SessionsMenu_handle_event
    \/ PresetsMenu_handle_event
    \/ CreateMenu_handle_event
    \/ RenameMenu_handle_event
    \/ DeleteMenu_handle_event

C39_ExitEndsLoop ==
    /\ [](C39_AtHead =>
            \A event \in Incoming : \A h \in Outcomes(event) :
                /\ C39_IsCtrlC(event) => (h.state.exit /\ ~h.panicked)
                /\ h.state.exit => (C39_IsCtrlC(event) \/ C39_IsQuit(event)))
    /\ [][/\ ((pc = "run" /\ state[1].exit) =>
                    (~C39_Handles /\ pc' \in {"run", "returned"}))
           /\ ((pc # "returned" /\ pc' = "returned") =>
                    (pc = "run" /\ state[1].exit))
          ]_vars

\* Ctrl+C has set the flag in the Create menu, where no key sets it, while a
\* notification event waits in the channel: it will not be handled
C39_Witness ==
    /\ pc = "run"
    /\ state[1].exit
    /\ state[1].mode = "Create"
    /\ events # << >>

(***************************************************************************)
(* C31.  When the backend operation that the Create, Rename, Delete or     *)
(* Presets menu has started fails, the mode stays what it is and a         *)
(* notification with the text of the error is queued; the mode goes back   *)
(* to Sessions only when the operation succeeds or on the key that leaves  *)
(* the menu, and nothing deletes the session that a failed spawn_preset    *)
(* has left behind.                                                        *)
(***************************************************************************)
C31_Menus == {"Create", "Rename", "Delete", "Presets"}
\* the keys that leave a menu without an operation
C31_Leaves(mode, event) ==
    /\ event.kind = "Key"
    /\ event.code \in (CASE mode = "Create" -> {"Esc"}
                         [] mode = "Rename" -> {"Esc"}
                         [] mode = "Delete" -> {"n", "Esc"}
                         [] mode = "Presets" -> {"Tab"})
\* what the handler of the menu leaves for the event
C31_Handled(event, h) ==
    /\ (h.result # None /\ h.result[1].tag = "Err") =>
            /\ h.state.mode = state[1].mode
            /\ h.notify = Some(h.result[1].msg)
            /\ server.names \subseteq h.server.names
    /\ h.state.mode # state[1].mode =>
            /\ h.state.mode = "Sessions"
            /\ \/ h.result = Some(Ok(<< >>))
               \/ C31_Leaves(state[1].mode, event)

C31_FailureKeepsMode ==
    /\ []((C39_AtHead /\ state[1].mode \in C31_Menus) =>
            \A event \in Incoming : \A h \in Outcomes(event) : C31_Handled(event, h))
    /\ [][(/\ pc' = "run"
            /\ spawned' # None
            /\ spawned'[1].result.tag = "Err"
            /\ PresetsMenu_handle_event) =>
                /\ state'[1].mode = "Presets"
                /\ events' # << >>
                /\ events'[Len(events')] = ShowNotification(spawned'[1].result.msg)
                /\ timers' = timers + 1
                /\ server.names \subseteq server'.names
          ]_vars

\* spawn_preset has failed for bar, whose session is the only one of the
\* server: the Presets menu is still open, the notification with the text
\* of the error waits in the channel, and the session is listed
C31_Witness ==
    /\ pc = "run"
    /\ state[1].mode = "Presets"
    /\ spawned # None
    /\ spawned[1].result.tag = "Err"
    /\ spawned[1].name = "bar"
    /\ server.names = {"bar"}
    /\ state[1].presets["bar"].running
    /\ events = << ShowNotification(spawned[1].result.msg) >>
    /\ timers = 1

(***************************************************************************)
(* C36.  Every notification that a menu shows is eventually cleared from   *)
(* that menu: the ClearNotification sent three seconds after its           *)
(* ShowNotification resets the notification of the menu that shows it,     *)
(* whatever keys, changes of mode included, are handled in between.        *)
(***************************************************************************)
C36_EventuallyCleared ==
    \A mode \in AppMode : (notification[mode] # None) ~> (notification[mode] = None)

====
